---------------------------- MODULE Spec2Model ----------------------------
(***************************************************************************)
(* Capacity reservation and booking lifecycle of the ticket platform:      *)
(* the Redis lock and rate limiter (RedisClient), the capacity.reserve /   *)
(* capacity.release handlers, and BookingService.createBooking,            *)
(* cancelBooking, confirmPayment and cleanupExpiredBookings.               *)
(* The NatsClient of the services (connection guard, request/reply,        *)
(* subscription loop) is modelled on its own variables.                    *)
(*                                                                         *)
(* One event is modelled.  Every await of the source is one step of the    *)
(* process that executes it, except where noted at the action.  Time is    *)
(* abstract: a lock's TTL may run out at any moment while it is held       *)
(* (ExpireLock), rate-window entries leave the window in any number at     *)
(* each rateLimit call, the event date approaches (TimePasses) and         *)
(* bookings age past the one-hour threshold between two sweeps (Cleanup).  *)
(***************************************************************************)
EXTENDS Integers, Sequences, FiniteSets, TLC

\* ------------------------------------------------------------------ bounds
MaxCalls == 3          \* calls of the booking API made in one behaviour
MaxExpiries == 1       \* lock TTL expiries in one behaviour
MaxOrphans == 1        \* timed-out requests still waiting on the bus
MaxSeqCalls == 6       \* calls made one after the other by a single caller
MaxRateCalls == 7      \* rateLimit calls of a single caller in one behaviour
MaxPairRateCalls == 4  \* rateLimit calls of two concurrent callers
MaxTime == 3           \* clock ticks in one behaviour
WindowTicks == 2       \* windowMs, in clock ticks
MaxCrashes == 1        \* callers that die inside their critical section
MaxNatsCalls == 3      \* publish / request / subscribe calls on one NatsClient
MaxUpdate == 3
MaxUpdateCalls == 2
MaxConnectCalls == 2
MaxMessages == 3       \* messages the bus delivers to one subscription

\* ------------------------------------------------------- program constants
MaxReconnectAttempts == 10
MaxRetries == 3        \* acquireLock's default maxRetries
BookMaxRequests == 5   \* createBooking: rateLimit(user:..:book, 5, 10000)
CancelMaxRequests == 3 \* cancelBooking: rateLimit(user:..:cancel, 3, 30000)

\* ------------------------------------------------------------- input sets
ProcOrder == <<"p1", "p2", "p3">>
Rank(p) == CHOOSE i \in DOMAIN ProcOrder : ProcOrder[i] = p
Clients == {ProcOrder[i] : i \in DOMAIN ProcOrder}   \* callers of the capacity RPCs
Procs == {"p1", "p2"}              \* concurrent callers of the booking API
Users == {"u1", "u2"}
Quantities == {1, 2}
Capacities == {1, 2}
\* totalAmount - price * quantity, in cents, of a createBooking input
AmountOffsets == {0, 2}
RateMaxes == {1, 2}                \* maxRequests of the limiter's own callers

\* the two NatsClient classes of the repository
NatsClients == {"error.middleware", "part_005"}
RequestIds == 1..MaxNatsCalls

Undefined == -1     \* a field the update request does not carry
NoLock == <<"none", "free">>
NoBooking == 0           \* no _id: ids start at 1

VARIABLES
  capacity,          \* Event.capacity
  availableTickets,  \* Event.availableTickets
  capacity0,         \* the capacity the event was created with (history)
  eventTime,         \* "far" (>= 24h away), "near" (future, < 24h), "past"
  bookings,          \* the Booking collection, in insertion order; _id = index
  staleUpTo,         \* bookings 1..staleUpTo were created more than 1h ago
  ledger,            \* the EventCapacityLog collection, in insertion order
  lock,              \* Redis: lock:{key} -> owner token, or NoLock
  rateWindow,        \* Redis: size of the sorted set at each rate-limit key
  proc,              \* each caller's position and locals
  orphans,           \* the bus: requests whose caller timed out, not yet handled
  limits,            \* what is left of the behaviour's bounds, and who calls
  now,               \* the clock read by Date.now(), in ticks
  zset,              \* Redis: the scores of the sorted set at one rate-limit key
  verdicts,          \* what each finished rateLimit call on that key returned (history)
  pipe,              \* each caller's position in rateLimit on that key
  eventCall,         \* each caller's position in updateEvent / updateTicketAvailability
  client,            \* which NatsClient class the client is an instance of
  connection,        \* NatsClient.connection: "null" or "open"
  isConnected,       \* NatsClient.isConnected
  reconnectAttempts, \* NatsClient.reconnectAttempts
  timers,            \* retries of connect() scheduled with setTimeout, not yet run
  fatal,             \* how many times connect() has emitted 'error' (history)
  connects,          \* connect() calls made by the client's user (history)
  retries,           \* connect() calls made by a retry timer (history)
  lastAttempt,       \* how the last run of connect() ended: "none", "ok", "failed"
  subscriptions,     \* NatsClient.subscriptions at the subject: a subscription id or NoEntry
  busSubs,           \* the subscriptions made for the subject that are live on the bus
  subscription,      \* the subscription of one subject and its delivery loop
  received,          \* the messages the bus handed to the subscription, in order
  dispatched,        \* the messages passed to the callback, in order (history)
  handled,           \* the callback invocations that ended, in order (history)
  running,           \* callback invocations in progress
  sent,              \* messages the client has put on the bus
  natsLog,           \* the publish / request / subscribe calls made (history)
  rpc,               \* the awaited request: its id, and waiting / reply / timeout
  busRequests,       \* requests on the bus, not yet handled by the callee
  busReplies,        \* replies on the bus, not yet arrived
  effects,           \* requests whose handler has run at the callee (history)
  outcomes           \* what each request call was resumed with (history)

rateVars == <<now, zset, verdicts, pipe>>

eventVars == <<eventCall>>

connVars == <<isConnected, reconnectAttempts, timers, fatal, connects, retries,
              lastAttempt, subscriptions, busSubs>>

natsVars == <<connVars, client, connection, subscription, received, dispatched, handled,
              running, sent, natsLog, rpc, busRequests, busReplies, effects,
              outcomes>>

bookingVars == <<capacity, availableTickets, capacity0, eventTime, bookings,
                 staleUpTo, ledger, lock, rateWindow, proc, orphans, limits>>

vars == <<capacity, availableTickets, capacity0, eventTime, bookings, staleUpTo,
          ledger, lock, rateWindow, proc, orphans, limits, now, zset, verdicts,
          pipe, eventCall, isConnected, reconnectAttempts, timers, fatal, connects,
          retries, lastAttempt, subscriptions, busSubs, client, connection, subscription, received, dispatched, handled,
          running, sent, natsLog, rpc, busRequests, busReplies, effects,
          outcomes>>

\* ---------------------------------------------------------------- helpers
MaxBookings == IF MaxCalls > MaxSeqCalls THEN MaxCalls ELSE MaxSeqCalls
BookingIds == 1..MaxBookings
EventKey == <<"event", 0>>                \* lock:event:{eventId}
BookingKey(b) == <<"booking", b>>         \* lock:booking:{bookingId}
UpdateKey == <<"event_update", 0>>        \* lock:event_update:{eventId}
LockKeys == {EventKey, UpdateKey} \cup {BookingKey(b) : b \in BookingIds}
RateKeys == {<<u, a>> : u \in Users, a \in {"book", "cancel"}}
RateLimitOf(key) == IF key[2] = "book" THEN BookMaxRequests ELSE CancelMaxRequests

RECURSIVE SumQty(_, _)
\* sum of ticketQuantity over the bookings at the indices in S
SumQty(bks, S) ==
  IF S = {} THEN 0
  ELSE LET i == CHOOSE x \in S : TRUE IN bks[i].qty + SumQty(bks, S \ {i})

NonCancelled(bks) == {i \in DOMAIN bks : bks[i].status # "cancelled"}
MinOf(S) == CHOOSE x \in S : \A y \in S : x <= y

Idle == [pc |-> "idle", op |-> "none", user |-> "u1", qty |-> 1,
         bid |-> NoBooking, tries |-> 0, snapPay |-> "none", todo |-> {},
         outer |-> FALSE, res |-> "none", rel |-> "none",
         capacityResponse |-> "none"]

Token(p, level) == <<p, level>>

\* ------------------------------------------------------------- RedisClient
\* SET lock:{key} value PX ttl NX: "OK" exactly when the key is absent
SetNxOk(cur) == cur = NoLock

\* a SET without NX: the entry is overwritten whoever holds it
acquireLockOverwrite(cur, token) == <<TRUE, token>>

\* a lock its holder may take again: the caller's own entry does not stop it
acquireLockReentrant(cur, token) ==
  IF SetNxOk(cur) \/ cur[1] = token[1] THEN <<TRUE, token>> ELSE <<FALSE, cur>>

\* an attempt that reports success on a key it did not set
acquireLockPhantom(cur, token) ==
  IF SetNxOk(cur) THEN <<TRUE, token>> ELSE <<TRUE, cur>>

\* one iteration of acquireLock's loop: <<acquired, new value of lock:{key}>>
acquireLock(cur, token) ==
  IF SetNxOk(cur) THEN <<TRUE, token>> ELSE <<FALSE, cur>>

\* releaseLock without the comparison of the stored value with the token
releaseLockAnyOwner(cur, token) == <<TRUE, NoLock>>

\* a releaseLock that deletes nothing
releaseLockSkipped(cur, token) == <<FALSE, cur>>

\* releaseLock's script: <<returned value, new value of lock:{key}>>
releaseLock(cur, token) ==
  IF cur = token THEN <<TRUE, NoLock>> ELSE <<FALSE, cur>>

\* a limiter that refuses nothing
WithinLimitAlways(count, maxRequests) == TRUE

\* a limiter that refuses the call that reaches maxRequests
WithinLimitExclusive(count, maxRequests) == count < maxRequests

\* rateLimit's return value: count <= maxRequests
WithinLimit(count, maxRequests) == count <= maxRequests

\* rateLimit's pipeline on a window of `count` entries of which `pruned` are
\* older than now - windowMs: <<allowed, new size of the window>>
rateLimit(count, pruned, maxRequests) ==
  LET card == (count - pruned) + 1 IN <<WithinLimit(card, maxRequests), card>>

\* a limiter that only records the calls it is going to admit
ZAddWhenAdmitted(z, score) ==
  IF WithinLimit(Len(z) + 1, limits.maxRequests) THEN Append(z, score) ELSE z

\* the commands of rateLimit's pipeline on the scores z of the sorted set
ZRemRangeByScore(z, upTo) == SelectSeq(z, LAMBDA x : x > upTo)

ZAdd(z, score) == Append(z, score)

ZCard(z) == Len(z)

IdlePipe == [pc |-> "idle", at |-> 0]

\* ---------------------------------------------------------- EventService
\* the fields an update request may carry, and the quantities a
\* tickets-update message may carry
UpdateCapacities == {Undefined} \cup 0..MaxUpdate
UpdateAvailabilities == {Undefined} \cup 0..MaxUpdate

IdleCall == [pc |-> "idle", op |-> "none", capacity |-> Undefined,
             availableTickets |-> Undefined, ticketsSold |-> 0,
             doc |-> [capacity |-> 0, availableTickets |-> 0],
             mem |-> [capacity |-> 0, availableTickets |-> 0],
             tries |-> 0, res |-> "none"]

Max(a, b) == IF a >= b THEN a ELSE b

RECURSIVE SumTickets(_, _)
\* sum of ticketsSold over the calls of the clients in S
SumTickets(calls, S) ==
  IF S = {} THEN 0
  ELSE LET p == CHOOSE x \in S : TRUE IN calls[p].ticketsSold + SumTickets(calls, S \ {p})

\* updateEvent between Event.findById and event.save(), on the document
\* (cap, avail) it loaded and the request's capacity c and availableTickets
\* a: <<error, capacity, availableTickets>> of the document in memory
UpdatedDocument(cap, avail, c, a) ==
  LET ticketsSold == cap - avail
      cap1 == IF c # Undefined THEN c ELSE cap
      avail1 == IF c # Undefined THEN Max(0, avail + (c - cap)) ELSE avail
  IN IF c # Undefined /\ c <= 0 THEN <<"capacity_invalid", cap, avail>>
     ELSE IF c # Undefined /\ c < ticketsSold THEN <<"below_sold", cap, avail>>
     ELSE IF a # Undefined /\ (a < 0 \/ a > cap1)
          THEN <<"available_invalid", cap, avail>>
     ELSE <<"none", cap1, IF a # Undefined THEN a ELSE avail1>>

\* document.save() writes the paths whose value was changed in memory and
\* leaves the others as they are in the store
SavePath(stored, loaded, inMemory) == IF inMemory # loaded THEN inMemory ELSE stored

\* -------------------------------------------------------------- NatsClient
\* a client that takes its connection for granted
EstablishedAssumed(conn) == TRUE

\* the guard of publish, request and subscribe: if (!this.connection) throw
Established(conn) == conn # "null"

\* a promise that takes whatever comes last
SettleAgain(state, outcome) == outcome

\* the promise of connection.request settles once: with the reply, or with
\* the timeout error when the timer fires first; what comes after is dropped
Settle(state, outcome) == IF state = "waiting" THEN outcome ELSE state

\* subscribe's delivery loop: the async function wrapping the for-await is
\* called on the spot in error.middleware.ts and never called in part_005
LoopStarted(c) == c = "error.middleware"

NoSubscription == [made |-> FALSE, loop |-> FALSE]
NoEntry == 0

\* a client that retries once more than maxReconnectAttempts
RetryAllowedInclusive(attempts) == attempts <= MaxReconnectAttempts

\* connect()'s catch: if (this.reconnectAttempts < this.maxReconnectAttempts)
RetryAllowed(attempts) == attempts < MaxReconnectAttempts

\* connect()'s catch sets isConnected = false in error.middleware.ts and
\* leaves it in part_005
ConnectedAfterFailure(c, connected) == IF c = "error.middleware" THEN FALSE ELSE connected

\* disconnect() ends with await this.connection.close() in
\* error.middleware.ts; in part_005 the connection is dropped open
ClosesConnection(c) == c = "error.middleware"

\* disconnect(): the subscription in the map is unsubscribed, and closing
\* the connection ends every subscription made on it
AfterDisconnect(c, live, entry) == IF ClosesConnection(c) THEN {} ELSE live \ {entry}
NoRequest == [id |-> 0, state |-> "none"]
Last(seq) == seq[Len(seq)]

\* ----------------------------------------------------- document store
\* the booking collection without its unique partial index
UniqueIndexAbsent(bks, i, u) == TRUE

\* the unique partial index {userId, eventId} over status # cancelled:
\* may booking i (0: a new document) of user u be written non-cancelled
UniqueIndexOk(bks, i, u) ==
  \A j \in NonCancelled(bks) : j # i => bks[j].user # u

\* capacity.reserve's filter without the availableTickets condition
ReserveMatchesAnyStock(avail, q) == TRUE

\* capacity.reserve's filter {_id, availableTickets: {$gte: quantity}}
ReserveMatches(avail, q) == avail >= q

\* a reserve handler that refuses and takes the tickets all the same
ReserveHandlerTakesAnyway(avail, q) ==
  IF ReserveMatches(avail, q) THEN <<TRUE, avail - q>> ELSE <<FALSE, avail - q>>

\* EVENT_CAPACITY_RESERVE: one findOneAndUpdate, conditional on the filter:
\* <<success, availableTickets>>
ReserveHandler(avail, q) ==
  IF ReserveMatches(avail, q) THEN <<TRUE, avail - q>> ELSE <<FALSE, avail>>

\* EVENT_CAPACITY_RELEASE: in a transaction, findById, capacity += quantity,
\* save; the transaction commits or aborts: <<success, capacity, availableTickets>>
ReleaseHandler(cap, avail, q, commits) ==
  IF commits THEN <<TRUE, cap + q, avail>> ELSE <<FALSE, cap, avail>>

\* the error of the reserve handler's failure reply, and the error that
\* createBooking throws for any failure of the request
UpstreamReserveError == "insufficient_or_not_found"
ReserveFailedError == "reserve_failed"

\* capacityResponse.success as createBooking / cancelBooking see it
ResponseOf(success, late) ==
  IF late THEN "timeout" ELSE IF success THEN "success" ELSE "failure"

\* cancelBooking's checks without the comparison of booking.userId with userId
CancelRejectionAnyOwner(bks, b, u, t) ==
  IF b > Len(bks) THEN "not_found"
  ELSE IF bks[b].status = "cancelled" THEN "already_cancelled"
  ELSE IF t # "far" THEN "too_late"
  ELSE "none"

\* cancelBooking's checks on booking b for the caller u, the event being at
\* t: the error thrown, or "none"
CancelRejection(bks, b, u, t) ==
  IF b > Len(bks) THEN "not_found"
  ELSE IF bks[b].user # u THEN "unauthorized"
  ELSE IF bks[b].status = "cancelled" THEN "already_cancelled"
  ELSE IF t # "far" THEN "too_late"
  ELSE "none"

\* cancelBooking's paymentStatus for the cancelled booking
CancelledPaymentStatus(pay) == IF pay = "paid" THEN "refunded" ELSE "failed"

\* createBooking's amount check, in cents: Math.abs(total - expected) > 0.01
AmountToleranceCents == 1
AmountInvalid(off) == (IF off < 0 THEN -off ELSE off) > AmountToleranceCents

\* ------------------------------------------------------------------- Init
FreshWindows == [k \in RateKeys |-> 0]

\* EventService.createEvent: availableTickets starts at capacity
InitStore ==
  /\ capacity \in Capacities
  /\ availableTickets = capacity
  /\ capacity0 = capacity
  /\ bookings = <<>>
  /\ staleUpTo = 0
  /\ ledger = <<>>
  /\ lock = [k \in LockKeys |-> NoLock]
  /\ orphans = <<>>
  /\ proc = [p \in Clients |-> Idle]
  /\ now = 0
  /\ zset = <<>>
  /\ verdicts = <<>>
  /\ pipe = [p \in Clients |-> IdlePipe]
  /\ eventCall = [p \in Clients |-> IdleCall]

\* a NatsClient after its constructor, on a bus that carries nothing
InitNatsClient ==
  /\ connection = "null"
  /\ isConnected = FALSE
  /\ reconnectAttempts = 0
  /\ timers = 0
  /\ fatal = 0
  /\ connects = 0
  /\ retries = 0
  /\ lastAttempt = "none"
  /\ subscriptions = NoEntry
  /\ busSubs = {}
  /\ subscription = NoSubscription
  /\ received = <<>>
  /\ dispatched = <<>>
  /\ handled = <<>>
  /\ running = 0
  /\ sent = 0
  /\ natsLog = <<>>
  /\ rpc = NoRequest
  /\ busRequests = {}
  /\ busReplies = {}
  /\ effects = {}
  /\ outcomes = [i \in RequestIds |-> <<>>]

\* the new event when no user has made a call in the last windows; the
\* booking flows publish and request, which both client classes do alike
InitCommon ==
  /\ InitStore
  /\ rateWindow = FreshWindows
  /\ InitNatsClient
  /\ client = "error.middleware"

\* a new event more than 24 hours away, no bookings, no call made yet
Init ==
  /\ InitCommon
  /\ eventTime = "far"
  /\ limits = [calls |-> MaxCalls, expiries |-> MaxExpiries, orphans |-> MaxOrphans, crashes |-> 0,
               workers |-> Procs, maxRequests |-> BookMaxRequests]

\* the same event, one caller making its calls one after the other, every
\* lock released before its TTL and every reply in time
InitSeq ==
  /\ InitCommon
  /\ eventTime = "far"
  /\ limits = [calls |-> MaxSeqCalls, expiries |-> 0, orphans |-> 0, crashes |-> 0,
               workers |-> {"p1"}, maxRequests |-> BookMaxRequests]

\* an event that has started: every createBooking and cancelBooking takes
\* its lock, fails its checks and releases the lock
InitLock ==
  /\ InitCommon
  /\ eventTime = "past"
  /\ limits = [calls |-> MaxCalls, expiries |-> MaxExpiries, orphans |-> 0, crashes |-> 0,
               workers |-> Procs, maxRequests |-> BookMaxRequests]

\* the same event seen by the clients of the capacity subjects alone
InitCapacity ==
  /\ InitCommon
  /\ eventTime = "far"
  /\ limits = [calls |-> 0, expiries |-> 0, orphans |-> 0, crashes |-> 0, workers |-> {},
               maxRequests |-> BookMaxRequests]

\* the started event again, with callers that may die while holding a lock;
\* a lock is only lost to its TTL when its holder is dead
InitCrash ==
  /\ InitCommon
  /\ eventTime = "past"
  /\ limits = [calls |-> MaxCalls, expiries |-> 0, orphans |-> 0,
               crashes |-> MaxCrashes, workers |-> Procs,
               maxRequests |-> BookMaxRequests]

\* the new event and one caller of createBooking whose requests may time out
InitCreate ==
  /\ InitCommon
  /\ eventTime = "far"
  /\ limits = [calls |-> MaxCalls, expiries |-> 0, orphans |-> MaxOrphans,
               crashes |-> 0, workers |-> {"p1"},
               maxRequests |-> BookMaxRequests]

\* the new event and one caller making its calls one after the other, of
\* any operation; requests may time out, no lock outlives its TTL
InitSolo ==
  /\ InitCommon
  /\ eventTime = "far"
  /\ limits = [calls |-> MaxCalls, expiries |-> 0, orphans |-> MaxOrphans,
               crashes |-> 0, workers |-> {"p1"},
               maxRequests |-> BookMaxRequests]

\* the new event and two callers of createBooking; the key user:{userId}:book
\* is shared by all events, and user u1 may have just made five booking
\* attempts on other events
InitReject ==
  /\ InitStore
  /\ \E n \in {0, BookMaxRequests} :
       rateWindow = [FreshWindows EXCEPT ![<<"u1", "book">>] = n]
  /\ InitNatsClient
  /\ client = "error.middleware"
  /\ eventTime = "far"
  /\ limits = [calls |-> MaxCalls, expiries |-> 0, orphans |-> 0,
               crashes |-> 0, workers |-> Procs,
               maxRequests |-> BookMaxRequests]

\* the new event and one caller, with a document store whose writes may fail
InitFault ==
  /\ InitCommon
  /\ eventTime = "far"
  /\ limits = [calls |-> MaxCalls, expiries |-> 0, orphans |-> 0,
               crashes |-> 0, workers |-> {"p1"},
               maxRequests |-> BookMaxRequests]

\* a new client of either class; no call of the booking API is made
InitNats ==
  /\ InitStore
  /\ rateWindow = FreshWindows
  /\ InitNatsClient
  /\ client \in NatsClients
  /\ eventTime = "far"
  /\ limits = [calls |-> 0, expiries |-> 0, orphans |-> 0, crashes |-> 0,
               workers |-> {}, maxRequests |-> BookMaxRequests]

\* a fresh rate-limit key and one caller, with createBooking's limit
InitRate ==
  /\ InitCommon
  /\ eventTime = "far"
  /\ limits = [calls |-> MaxRateCalls, expiries |-> 0, orphans |-> 0, crashes |-> 0,
               workers |-> {"p1"}, maxRequests |-> BookMaxRequests]

\* a fresh rate-limit key and two callers, with a limit of one or two
InitRatePair ==
  /\ InitCommon
  /\ eventTime = "far"
  /\ \E m \in RateMaxes :
       limits = [calls |-> MaxPairRateCalls, expiries |-> 0, orphans |-> 0, crashes |-> 0,
                 workers |-> Procs, maxRequests |-> m]

\* a fresh rate-limit key and one caller, with a limit of one or two
InitRateSolo ==
  /\ InitCommon
  /\ eventTime = "far"
  /\ \E m \in RateMaxes :
       limits = [calls |-> MaxPairRateCalls, expiries |-> 0, orphans |-> 0, crashes |-> 0,
                 workers |-> {"p1"}, maxRequests |-> m]

\* an event created with capacity 4 on which u1 and u2 each hold a pending
\* booking of one ticket, made by two createBooking calls in this order; u1
\* may have just made three cancel attempts on bookings of other events
\* (the key user:{userId}:cancel is shared by all bookings)
InitSweep ==
  /\ capacity = 4 /\ availableTickets = 0 /\ capacity0 = 4
  /\ bookings = <<[user |-> "u1", qty |-> 1, status |-> "pending", pay |-> "pending"],
                  [user |-> "u2", qty |-> 1, status |-> "pending", pay |-> "pending"]>>
  /\ staleUpTo = 0
  /\ ledger = <<[op |-> "reserve", qty |-> 1, bid |-> 1],
                [op |-> "reserve", qty |-> 1, bid |-> 2]>>
  /\ lock = [k \in LockKeys |-> NoLock]
  /\ orphans = <<>>
  /\ proc = [p \in Clients |-> Idle]
  /\ now = 0 /\ zset = <<>> /\ verdicts = <<>>
  /\ pipe = [p \in Clients |-> IdlePipe]
  /\ eventCall = [p \in Clients |-> IdleCall]
  /\ \E n \in {0, CancelMaxRequests} :
       rateWindow = [FreshWindows EXCEPT ![<<"u1", "cancel">>] = n]
  /\ InitNatsClient
  /\ client = "error.middleware"
  /\ eventTime = "far"
  /\ limits = [calls |-> MaxCalls, expiries |-> 0, orphans |-> 0,
               crashes |-> 0, workers |-> Procs,
               maxRequests |-> BookMaxRequests]

\* a new event and one caller of updateEvent
InitUpdate ==
  /\ InitCommon
  /\ eventTime = "far"
  /\ limits = [calls |-> MaxUpdateCalls, expiries |-> 0, orphans |-> 0, crashes |-> 0,
               workers |-> {"p1"}, maxRequests |-> BookMaxRequests]

\* a new event, one call of updateEvent and the clients of the capacity subjects
InitRace ==
  /\ InitCommon
  /\ eventTime = "far"
  /\ limits = [calls |-> 1, expiries |-> 0, orphans |-> 0, crashes |-> 0,
               workers |-> {"p1"}, maxRequests |-> BookMaxRequests]

\* ------------------------------------------------------- process plumbing
Set(p, r) == proc' = [proc EXCEPT ![p] = r]

\* the call of p returns or throws: its locals are dropped, its outcome kept
Finished(r, outcome) ==
  [r EXCEPT !.pc = "idle", !.res = outcome, !.tries = 0, !.snapPay = "none",
            !.todo = {}, !.outer = FALSE, !.capacityResponse = "none"]

\* a withLock that goes on trying for its lock
LeaveNever(r, outcome) == [r EXCEPT !.tries = 0]

\* the inner withLock of createBooking / cancelBooking ends with `outcome`
\* without holding the lock (rate limit or lock failure); under the sweep's
\* lock the error is caught by cleanupExpiredBookings after its release
Leave(r, outcome) ==
  IF r.outer THEN [r EXCEPT !.pc = "s_unlock", !.res = outcome, !.tries = 0]
  ELSE Finished(r, outcome)

\* the critical section ends with `outcome`: withLock's finally comes next
ToUnlock(r, outcome) == [r EXCEPT !.pc = "unlock", !.res = outcome, !.tries = 0]

\* what the last releaseLock of the call returned
Released(b) == IF b THEN "deleted" ELSE "kept"

InnerKey(r) == IF r.op = "create" THEN EventKey ELSE BookingKey(r.bid)

\* p is inside the operation wrapped by its createBooking / cancelBooking withLock
InCriticalSection(p) ==
  proc[p].pc \in {"c_check", "c_wait", "c_save", "c_dec",
                  "x_load", "x_wait", "x_update", "x_inc"}

\* NatsClient.request gives up after its timeout while the request is still
\* on the bus, where it stays
Orphan(kind, q) ==
  /\ Len(orphans) < limits.orphans
  /\ orphans' = Append(orphans, [kind |-> kind, qty |-> q])

\* a free caller takes the next call; of two free callers, the first
CallAllowed(p) ==
  /\ limits.calls > 0 /\ p \in limits.workers
  /\ \A o \in limits.workers : proc[o].pc = "idle" => Rank(p) <= Rank(o)

\* ------------------------------------------- BookingService.createBooking
\* the call arrives and passes or fails rateLimit(user:{userId}:book, 5, 10000)
CreateBooking(p, u, q) ==
  /\ proc[p].pc = "idle" /\ CallAllowed(p)
  /\ limits' = [limits EXCEPT !.calls = @ - 1]
  /\ \E pruned \in 0..rateWindow[<<u, "book">>] :
       LET rl == rateLimit(rateWindow[<<u, "book">>], pruned, BookMaxRequests)
           r == [Idle EXCEPT !.op = "create", !.user = u, !.qty = q]
       IN /\ rateWindow' = [rateWindow EXCEPT ![<<u, "book">>] = rl[2]]
          /\ Set(p, IF rl[1] THEN [r EXCEPT !.pc = "c_lock"]
                    ELSE Finished(r, "rate_limited"))
  /\ UNCHANGED <<natsVars, eventVars, rateVars, capacity, availableTickets, capacity0, eventTime, bookings,
                 staleUpTo, ledger, lock, orphans>>

\* one attempt of withLock's acquireLock on the call's own key
\* (event:{eventId} for createBooking, booking:{bookingId} for cancelBooking)
AcquireInner(p) ==
  /\ proc[p].pc \in {"c_lock", "x_lock"}
  /\ LET r == proc[p]
         a == acquireLock(lock[InnerKey(r)], Token(p, "inner"))
     IN /\ lock' = [lock EXCEPT ![InnerKey(r)] = a[2]]
        /\ Set(p, IF a[1]
                  THEN [r EXCEPT !.pc = IF r.op = "create" THEN "c_check" ELSE "x_load",
                                 !.tries = 0]
                  ELSE IF r.tries + 1 < MaxRetries
                       THEN [r EXCEPT !.tries = r.tries + 1]
                       ELSE Leave(r, "lock_failed"))
  /\ UNCHANGED <<natsVars, eventVars, rateVars, capacity, availableTickets, capacity0, eventTime, bookings,
                 staleUpTo, ledger, rateWindow, orphans, limits>>

\* Event.findById, User.findById and the validations, the last of them on
\* the call's totalAmount (off cents away from price * quantity); then the
\* capacity.reserve request is sent.  All users of the model are active.
CreateCheck(p, off) ==
  /\ proc[p].pc = "c_check"
  /\ LET r == proc[p] IN
       Set(p, IF eventTime = "past" THEN ToUnlock(r, "past_event")
              ELSE IF availableTickets < r.qty THEN ToUnlock(r, "insufficient")
              ELSE IF AmountInvalid(off) THEN ToUnlock(r, "invalid_amount")
              ELSE [r EXCEPT !.pc = "c_wait"])
  /\ UNCHANGED <<natsVars, eventVars, rateVars, capacity, availableTickets, capacity0, eventTime, bookings,
                 staleUpTo, ledger, lock, rateWindow, orphans, limits>>

\* the handler runs on the request and its reply reaches createBooking, or
\* (late) reaches it after the 5000 ms timeout and is discarded
ReserveReply(p, late) ==
  /\ proc[p].pc = "c_wait"
  /\ LET h == ReserveHandler(availableTickets, proc[p].qty) IN
       /\ availableTickets' = h[2]
       /\ Set(p, IF h[1] /\ ~late
                 THEN [proc[p] EXCEPT !.pc = "c_save",
                                      !.capacityResponse = ResponseOf(TRUE, FALSE)]
                 ELSE [ToUnlock(proc[p], ReserveFailedError)
                         EXCEPT !.capacityResponse = ResponseOf(h[1], late)])
  /\ UNCHANGED <<natsVars, eventVars, rateVars, capacity, capacity0, eventTime, bookings, staleUpTo, ledger,
                 lock, rateWindow, orphans, limits>>

\* no reply within 5000 ms and the request not handled yet
CreateTimeout(p) ==
  /\ proc[p].pc = "c_wait"
  /\ Orphan("reserve", proc[p].qty)
  /\ Set(p, [ToUnlock(proc[p], ReserveFailedError)
               EXCEPT !.capacityResponse = ResponseOf(FALSE, TRUE)])
  /\ UNCHANGED <<natsVars, eventVars, rateVars, capacity, availableTickets, capacity0, eventTime, bookings,
                 staleUpTo, ledger, lock, rateWindow, limits>>

\* booking.save(): inserted in pending/pending, or a duplicate-key error
CreateSave(p) ==
  /\ proc[p].pc = "c_save"
  /\ LET r == proc[p] IN
       IF UniqueIndexOk(bookings, NoBooking, r.user)
       THEN /\ bookings' = Append(bookings, [user |-> r.user, qty |-> r.qty,
                                             status |-> "pending", pay |-> "pending"])
            /\ Set(p, [r EXCEPT !.pc = "c_dec", !.bid = Len(bookings) + 1])
       ELSE /\ bookings' = bookings
            /\ Set(p, ToUnlock(r, "duplicate"))
  /\ UNCHANGED <<natsVars, eventVars, rateVars, capacity, availableTickets, capacity0, eventTime, staleUpTo,
                 ledger, lock, rateWindow, orphans, limits>>

\* Event.findByIdAndUpdate(event._id, {$inc: {availableTickets: -quantity}}),
\* then EventCapacityLog.create 'reserve' (nothing reads the log: one step);
\* the notification is published and the booking returned
CreateDecrement(p) ==
  /\ proc[p].pc = "c_dec"
  /\ availableTickets' = availableTickets - proc[p].qty
  /\ ledger' = Append(ledger, [op |-> "reserve", qty |-> proc[p].qty,
                               bid |-> proc[p].bid])
  /\ Set(p, ToUnlock(proc[p], "ok"))
  /\ UNCHANGED <<natsVars, eventVars, rateVars, capacity, capacity0, eventTime, bookings, staleUpTo, lock,
                 rateWindow, orphans, limits>>

\* after booking.save(), Event.findByIdAndUpdate rejects, or it succeeds
\* (decremented) and EventCapacityLog.create rejects: createBooking throws
CreateStoreFault(p, decremented) ==
  /\ proc[p].pc = "c_dec"
  /\ availableTickets' = IF decremented THEN availableTickets - proc[p].qty
                         ELSE availableTickets
  /\ Set(p, ToUnlock(proc[p], "store_error"))
  /\ UNCHANGED <<natsVars, eventVars, rateVars, capacity, capacity0, eventTime, bookings, staleUpTo, ledger,
                 lock, rateWindow, orphans, limits>>

\* withLock's finally: releaseLock(key, lockValue), then the result or the
\* error of the operation is propagated
Unlock(p) ==
  /\ proc[p].pc = "unlock"
  /\ LET r == proc[p]
         rl == releaseLock(lock[InnerKey(r)], Token(p, "inner"))
     IN /\ lock' = [lock EXCEPT ![InnerKey(r)] = rl[2]]
        /\ Set(p, IF r.outer THEN [r EXCEPT !.pc = "s_unlock", !.rel = Released(rl[1])]
                  ELSE [Finished(r, r.res) EXCEPT !.rel = Released(rl[1])])
  /\ UNCHANGED <<natsVars, eventVars, rateVars, capacity, availableTickets, capacity0, eventTime, bookings,
                 staleUpTo, ledger, rateWindow, orphans, limits>>

\* ------------------------------------------- BookingService.cancelBooking
\* cancelBooking's rateLimit(user:{userId}:cancel, 3, 30000) for the call r
CancelRate(p, r) ==
  \E pruned \in 0..rateWindow[<<r.user, "cancel">>] :
    LET rl == rateLimit(rateWindow[<<r.user, "cancel">>], pruned, CancelMaxRequests)
    IN /\ rateWindow' = [rateWindow EXCEPT ![<<r.user, "cancel">>] = rl[2]]
       /\ Set(p, IF rl[1] THEN [r EXCEPT !.pc = "x_lock", !.tries = 0]
                 ELSE Leave(r, "rate_limited"))

\* the call arrives, for an existing booking or for an id not (yet) in use
CancelBooking(p, b, u) ==
  /\ proc[p].pc = "idle" /\ CallAllowed(p)
  /\ b <= Len(bookings) + 1
  /\ limits' = [limits EXCEPT !.calls = @ - 1]
  /\ CancelRate(p, [Idle EXCEPT !.op = "cancel", !.user = u, !.bid = b])
  /\ UNCHANGED <<natsVars, eventVars, rateVars, capacity, availableTickets, capacity0, eventTime, bookings,
                 staleUpTo, ledger, lock, orphans>>

\* Booking.findById and Event.findById with their checks; then the
\* capacity.release request is sent
CancelLoad(p) ==
  /\ proc[p].pc = "x_load"
  /\ LET r == proc[p] IN
       LET e == CancelRejection(bookings, r.bid, r.user, eventTime) IN
         Set(p, IF e # "none" THEN ToUnlock(r, e)
                ELSE [r EXCEPT !.pc = "x_wait", !.snapPay = bookings[r.bid].pay])
  /\ UNCHANGED <<natsVars, eventVars, rateVars, capacity, availableTickets, capacity0, eventTime, bookings,
                 staleUpTo, ledger, lock, rateWindow, orphans, limits>>

\* a cancelBooking that gives up when the release did not succeed
AfterReleaseStrict(r, response) ==
  IF response = "success"
  THEN [r EXCEPT !.pc = "x_update", !.capacityResponse = response]
  ELSE [ToUnlock(r, "release_failed") EXCEPT !.capacityResponse = response]

\* cancelBooking after its capacity.release request: a failure reply and a
\* thrown request are logged, and the call goes on to its booking update
AfterRelease(r, response) ==
  [r EXCEPT !.pc = "x_update", !.capacityResponse = response]

\* the handler runs on the request and its reply (success or not) reaches
\* cancelBooking, or (late) the request times out first: either way the
\* outcome is only logged
ReleaseReply(p, commits) ==
  /\ proc[p].pc = "x_wait"
  /\ LET h == ReleaseHandler(capacity, availableTickets,
                             bookings[proc[p].bid].qty, commits) IN
       /\ capacity' = h[2]
       /\ availableTickets' = h[3]
       /\ Set(p, AfterRelease(proc[p], ResponseOf(h[1], FALSE)))
  /\ UNCHANGED <<natsVars, eventVars, rateVars, capacity0, eventTime, bookings, staleUpTo, ledger, lock,
                 rateWindow, orphans, limits>>

\* no reply within 5000 ms and the request not handled yet
CancelTimeout(p) ==
  /\ proc[p].pc = "x_wait"
  /\ Orphan("release", bookings[proc[p].bid].qty)
  /\ Set(p, AfterRelease(proc[p], ResponseOf(FALSE, TRUE)))
  /\ UNCHANGED <<natsVars, eventVars, rateVars, capacity, availableTickets, capacity0, eventTime, bookings,
                 staleUpTo, ledger, lock, rateWindow, limits>>

\* either handler on a request whose caller has timed out: the reply is lost
OrphanHandler(commits) ==
  /\ orphans # <<>>
  /\ LET m == Head(orphans) IN
       IF m.kind = "reserve"
       THEN /\ availableTickets' = ReserveHandler(availableTickets, m.qty)[2]
            /\ capacity' = capacity
       ELSE /\ capacity' = ReleaseHandler(capacity, availableTickets, m.qty, commits)[2]
            /\ availableTickets' =
                 ReleaseHandler(capacity, availableTickets, m.qty, commits)[3]
  /\ orphans' = Tail(orphans)
  /\ UNCHANGED <<natsVars, eventVars, rateVars, capacity0, eventTime, bookings, staleUpTo, ledger, lock,
                 rateWindow, proc, limits>>

\* Booking.findByIdAndUpdate: status cancelled, paymentStatus from the
\* booking as it was read in CancelLoad
CancelUpdate(p) ==
  /\ proc[p].pc = "x_update"
  /\ bookings' = [bookings EXCEPT ![proc[p].bid].status = "cancelled",
                                  ![proc[p].bid].pay =
                                      CancelledPaymentStatus(proc[p].snapPay)]
  /\ Set(p, [proc[p] EXCEPT !.pc = "x_inc"])
  /\ UNCHANGED <<natsVars, eventVars, rateVars, capacity, availableTickets, capacity0, eventTime, staleUpTo,
                 ledger, lock, rateWindow, orphans, limits>>

\* Event.findByIdAndUpdate(eventId, {$inc: {availableTickets: quantity}}),
\* then EventCapacityLog.create 'release' (nothing reads the log: one step);
\* the notification is published and the booking returned
CancelIncrement(p) ==
  /\ proc[p].pc = "x_inc"
  /\ availableTickets' = availableTickets + bookings[proc[p].bid].qty
  /\ ledger' = Append(ledger, [op |-> "release", qty |-> bookings[proc[p].bid].qty,
                               bid |-> proc[p].bid])
  /\ Set(p, ToUnlock(proc[p], "ok"))
  /\ UNCHANGED <<natsVars, eventVars, rateVars, capacity, capacity0, eventTime, bookings, staleUpTo, lock,
                 rateWindow, orphans, limits>>

\* after the booking update, Event.findByIdAndUpdate rejects, or it succeeds
\* (incremented) and EventCapacityLog.create rejects: cancelBooking throws
CancelStoreFault(p, incremented) ==
  /\ proc[p].pc = "x_inc"
  /\ availableTickets' = IF incremented
                         THEN availableTickets + bookings[proc[p].bid].qty
                         ELSE availableTickets
  /\ Set(p, ToUnlock(proc[p], "store_error"))
  /\ UNCHANGED <<natsVars, eventVars, rateVars, capacity, capacity0, eventTime, bookings, staleUpTo, ledger,
                 lock, rateWindow, orphans, limits>>

\* ------------------------------------------ BookingService.confirmPayment
\* one findByIdAndUpdate, whatever the booking's status; the unique index
\* rejects the write when it would make a second non-cancelled booking
ConfirmPayment(b) ==
  /\ limits.calls > 0 /\ b \in 1..Len(bookings)
  /\ limits' = [limits EXCEPT !.calls = @ - 1]
  /\ bookings' = IF UniqueIndexOk(bookings, b, bookings[b].user)
                 THEN [bookings EXCEPT ![b].status = "confirmed", ![b].pay = "paid"]
                 ELSE bookings
  /\ UNCHANGED <<natsVars, eventVars, rateVars, capacity, availableTickets, capacity0, eventTime, staleUpTo,
                 ledger, lock, rateWindow, proc, orphans>>

\* ---------------------------------- BookingService.cleanupExpiredBookings
\* a sweep whose loop lets the error of one booking end the run
SweepNextRethrows(r) ==
  IF r.todo = {} THEN Finished(r, "ok")
  ELSE IF r.res # "none" THEN Finished(r, r.res)
  ELSE [r EXCEPT !.pc = "s_lock", !.bid = MinOf(r.todo), !.todo = r.todo \ {MinOf(r.todo)},
                 !.user = bookings[MinOf(r.todo)].user, !.tries = 0, !.outer = FALSE,
                 !.snapPay = "none", !.capacityResponse = "none"]

\* the next stale booking of the run, or the end of the run
SweepNext(r) ==
  IF r.todo = {} THEN Finished(r, "ok")
  ELSE [r EXCEPT !.pc = "s_lock", !.bid = MinOf(r.todo), !.todo = r.todo \ {MinOf(r.todo)},
                 !.user = bookings[MinOf(r.todo)].user, !.tries = 0, !.outer = FALSE,
                 !.snapPay = "none", !.capacityResponse = "none"]

\* Booking.find({status: 'pending', createdAt: {$lt: now - 1h}}), run when
\* the bookings 1..n are older than one hour
Cleanup(p, n) ==
  /\ proc[p].pc = "idle" /\ CallAllowed(p)
  /\ n \in staleUpTo..Len(bookings)
  /\ staleUpTo' = n
  /\ limits' = [limits EXCEPT !.calls = @ - 1]
  /\ Set(p, SweepNext([Idle EXCEPT !.op = "sweep",
                         !.todo = {b \in 1..n : bookings[b].status = "pending"}]))
  /\ UNCHANGED <<natsVars, eventVars, rateVars, capacity, availableTickets, capacity0, eventTime, bookings,
                 ledger, lock, rateWindow, orphans>>

\* one attempt of the sweep's withLock(booking:{id}) acquireLock
SweepAcquire(p) ==
  /\ proc[p].pc = "s_lock"
  /\ LET r == proc[p]
         a == acquireLock(lock[BookingKey(r.bid)], Token(p, "outer"))
     IN /\ lock' = [lock EXCEPT ![BookingKey(r.bid)] = a[2]]
        /\ Set(p, IF a[1] THEN [r EXCEPT !.pc = "s_cancel", !.outer = TRUE, !.tries = 0]
                  ELSE IF r.tries + 1 < MaxRetries
                       THEN [r EXCEPT !.tries = r.tries + 1]
                       ELSE SweepNext(r))
  /\ UNCHANGED <<natsVars, eventVars, rateVars, capacity, availableTickets, capacity0, eventTime, bookings,
                 staleUpTo, ledger, rateWindow, orphans, limits>>

\* inside the sweep's lock: this.cancelBooking(id, booking.userId, reason)
SweepCancel(p) ==
  /\ proc[p].pc = "s_cancel"
  /\ CancelRate(p, proc[p])
  /\ UNCHANGED <<natsVars, eventVars, rateVars, capacity, availableTickets, capacity0, eventTime, bookings,
                 staleUpTo, ledger, lock, orphans, limits>>

\* the sweep's withLock finally; an error of cancelBooking is caught and
\* logged, and the loop goes on
SweepUnlock(p) ==
  /\ proc[p].pc = "s_unlock"
  /\ LET r == proc[p]
         rl == releaseLock(lock[BookingKey(r.bid)], Token(p, "outer"))
     IN /\ lock' = [lock EXCEPT ![BookingKey(r.bid)] = rl[2]]
        /\ Set(p, [SweepNext(r) EXCEPT !.rel = Released(rl[1])])
  /\ UNCHANGED <<natsVars, eventVars, rateVars, capacity, availableTickets, capacity0, eventTime, bookings,
                 staleUpTo, ledger, rateWindow, orphans, limits>>

\* ------------------------------------------- clients of the capacity subjects
\* a client sends one capacity.reserve request (natsClient.request)
RequestReserve(p, q) ==
  /\ proc[p].pc = "idle" /\ proc[p].op = "none"
  /\ Set(p, [Idle EXCEPT !.pc = "r_wait", !.op = "reserve", !.qty = q])
  /\ UNCHANGED <<natsVars, eventVars, rateVars, capacity, availableTickets, capacity0, eventTime, bookings,
                 staleUpTo, ledger, lock, rateWindow, orphans, limits>>

\* the EVENT_CAPACITY_RESERVE handler runs on p's request and replies
HandleReserve(p) ==
  /\ proc[p].pc = "r_wait"
  /\ LET h == ReserveHandler(availableTickets, proc[p].qty) IN
       /\ availableTickets' = h[2]
       /\ Set(p, Finished(proc[p], IF h[1] THEN "ok" ELSE "insufficient"))
  /\ UNCHANGED <<natsVars, eventVars, rateVars, capacity, capacity0, eventTime, bookings, staleUpTo, ledger,
                 lock, rateWindow, orphans, limits>>

\* a client whose reserve succeeded sends capacity.release for the same quantity
RequestRelease(p) ==
  /\ proc[p].pc = "idle" /\ proc[p].op = "reserve" /\ proc[p].res = "ok"
  /\ Set(p, [proc[p] EXCEPT !.pc = "l_wait", !.op = "release", !.res = "none"])
  /\ UNCHANGED <<natsVars, eventVars, rateVars, capacity, availableTickets, capacity0, eventTime, bookings,
                 staleUpTo, ledger, lock, rateWindow, orphans, limits>>

\* the EVENT_CAPACITY_RELEASE handler runs on p's request and replies
HandleRelease(p, commits) ==
  /\ proc[p].pc = "l_wait"
  /\ LET h == ReleaseHandler(capacity, availableTickets, proc[p].qty, commits) IN
       /\ capacity' = h[2]
       /\ availableTickets' = h[3]
       /\ Set(p, Finished(proc[p], IF h[1] THEN "ok" ELSE "failed"))
  /\ UNCHANGED <<natsVars, eventVars, rateVars, capacity0, eventTime, bookings, staleUpTo, ledger, lock,
                 rateWindow, orphans, limits>>

\* ----------------------------------------------- EventService.updateEvent
SetCall(p, r) == eventCall' = [eventCall EXCEPT ![p] = r]

\* the call of p returns or throws
CallFinished(r, outcome) == [r EXCEPT !.pc = "idle", !.res = outcome, !.tries = 0]

\* updateEvent(eventId, updates) arrives with updates.capacity = c and
\* updates.availableTickets = a (either may be absent)
UpdateEvent(p, c, a) ==
  /\ eventCall[p].pc = "idle"
  /\ limits.calls > 0 /\ p \in limits.workers
  /\ limits' = [limits EXCEPT !.calls = @ - 1]
  /\ SetCall(p, [IdleCall EXCEPT !.pc = "u_lock", !.op = "update",
                                 !.capacity = c, !.availableTickets = a])
  /\ UNCHANGED <<natsVars, rateVars, capacity, availableTickets, capacity0, eventTime,
                 bookings, staleUpTo, ledger, lock, rateWindow, proc, orphans>>

\* one attempt of withLock(event_update:{eventId})'s acquireLock
UpdateAcquire(p) ==
  /\ eventCall[p].pc = "u_lock"
  /\ LET r == eventCall[p]
         a == acquireLock(lock[UpdateKey], Token(p, "update"))
     IN /\ lock' = [lock EXCEPT ![UpdateKey] = a[2]]
        /\ SetCall(p, IF a[1] THEN [r EXCEPT !.pc = "u_load", !.tries = 0]
                      ELSE IF r.tries + 1 < MaxRetries
                           THEN [r EXCEPT !.tries = r.tries + 1]
                           ELSE CallFinished(r, "lock_failed"))
  /\ UNCHANGED <<natsVars, rateVars, capacity, availableTickets, capacity0, eventTime,
                 bookings, staleUpTo, ledger, rateWindow, proc, orphans, limits>>

\* Event.findById, then the checks and the assignments to the loaded
\* document; a failed check throws before anything is written
UpdateLoad(p) ==
  /\ eventCall[p].pc = "u_load"
  /\ LET r == eventCall[p]
         d == UpdatedDocument(capacity, availableTickets, r.capacity, r.availableTickets)
     IN SetCall(p, IF d[1] # "none" THEN [r EXCEPT !.pc = "u_unlock", !.res = d[1]]
                   ELSE [r EXCEPT !.pc = "u_save",
                                  !.doc = [capacity |-> capacity,
                                           availableTickets |-> availableTickets],
                                  !.mem = [capacity |-> d[2],
                                           availableTickets |-> d[3]]])
  /\ UNCHANGED <<natsVars, rateVars, capacity, availableTickets, capacity0, eventTime,
                 bookings, staleUpTo, ledger, lock, rateWindow, proc, orphans, limits>>

\* event.save(): the changed paths are written; then the cache is refreshed
\* and the event returned
UpdateSave(p) ==
  /\ eventCall[p].pc = "u_save"
  /\ LET r == eventCall[p] IN
       /\ capacity' = SavePath(capacity, r.doc.capacity, r.mem.capacity)
       /\ availableTickets' =
            SavePath(availableTickets, r.doc.availableTickets, r.mem.availableTickets)
       /\ SetCall(p, [r EXCEPT !.pc = "u_unlock", !.res = "ok"])
  /\ UNCHANGED <<natsVars, rateVars, capacity0, eventTime, bookings, staleUpTo, ledger,
                 lock, rateWindow, proc, orphans, limits>>

\* withLock's finally: releaseLock, then the event or the error is propagated
UpdateUnlock(p) ==
  /\ eventCall[p].pc = "u_unlock"
  /\ lock' = [lock EXCEPT ![UpdateKey] = releaseLock(lock[UpdateKey], Token(p, "update"))[2]]
  /\ SetCall(p, CallFinished(eventCall[p], eventCall[p].res))
  /\ UNCHANGED <<natsVars, rateVars, capacity, availableTickets, capacity0, eventTime,
                 bookings, staleUpTo, ledger, rateWindow, proc, orphans, limits>>

\* ---------------------------------- EventService.updateTicketAvailability
\* the event.tickets.update handler calls updateTicketAvailability(eventId, n)
TicketsUpdate(p, n) ==
  /\ eventCall[p].pc = "idle" /\ eventCall[p].op = "none"
  /\ SetCall(p, [IdleCall EXCEPT !.pc = "t_load", !.op = "tickets", !.ticketsSold = n])
  /\ UNCHANGED <<natsVars, rateVars, bookingVars>>

\* Event.findById and the check availableTickets < ticketsSold; the
\* subtraction is made on the loaded document
TicketsLoad(p) ==
  /\ eventCall[p].pc = "t_load"
  /\ LET r == eventCall[p] IN
       SetCall(p, IF availableTickets < r.ticketsSold THEN CallFinished(r, "insufficient")
                  ELSE [r EXCEPT !.pc = "t_save",
                                 !.doc = [capacity |-> capacity,
                                          availableTickets |-> availableTickets],
                                 !.mem = [capacity |-> capacity,
                                          availableTickets |->
                                            availableTickets - r.ticketsSold]])
  /\ UNCHANGED <<natsVars, rateVars, bookingVars>>

\* event.save(), then the cache is refreshed and success is replied
TicketsSave(p) ==
  /\ eventCall[p].pc = "t_save"
  /\ availableTickets' =
       SavePath(availableTickets, eventCall[p].doc.availableTickets,
                eventCall[p].mem.availableTickets)
  /\ SetCall(p, CallFinished(eventCall[p], "ok"))
  /\ UNCHANGED <<natsVars, rateVars, capacity, capacity0, eventTime, bookings, staleUpTo,
                 ledger, lock, rateWindow, proc, orphans, limits>>

\* ------------------------------------------------- RedisClient.rateLimit
\* rateLimit(key, maxRequests, windowMs), with the clock: const now = Date.now()
RateCall(p) ==
  /\ pipe[p].pc = "idle" /\ p \in limits.workers /\ limits.calls > 0
  /\ limits' = [limits EXCEPT !.calls = @ - 1]
  /\ pipe' = [pipe EXCEPT ![p] = [pc |-> "zrem", at |-> now]]
  /\ UNCHANGED <<natsVars, eventVars, capacity, availableTickets, capacity0, eventTime, bookings,
                 staleUpTo, ledger, lock, rateWindow, proc, orphans, now, zset,
                 verdicts>>

\* pipeline.zremrangebyscore(key, '-inf', windowStart)
PipeZRem(p) ==
  /\ pipe[p].pc = "zrem"
  /\ zset' = ZRemRangeByScore(zset, pipe[p].at - WindowTicks)
  /\ pipe' = [pipe EXCEPT ![p].pc = "zadd"]
  /\ UNCHANGED <<natsVars, eventVars, capacity, availableTickets, capacity0, eventTime, bookings,
                 staleUpTo, ledger, lock, rateWindow, proc, orphans, limits, now,
                 verdicts>>

\* pipeline.zadd(key, now, member)
PipeZAdd(p) ==
  /\ pipe[p].pc = "zadd"
  /\ zset' = ZAdd(zset, pipe[p].at)
  /\ pipe' = [pipe EXCEPT ![p].pc = "zcard"]
  /\ UNCHANGED <<natsVars, eventVars, capacity, availableTickets, capacity0, eventTime, bookings,
                 staleUpTo, ledger, lock, rateWindow, proc, orphans, limits, now,
                 verdicts>>

\* pipeline.zcard(key), and the call returns count <= maxRequests.  The
\* pipeline's expire only removes a key whose entries are all out of window.
PipeZCard(p) ==
  /\ pipe[p].pc = "zcard"
  /\ verdicts' = Append(verdicts,
                        [at |-> pipe[p].at,
                         ok |-> WithinLimit(ZCard(zset), limits.maxRequests)])
  /\ pipe' = [pipe EXCEPT ![p] = IdlePipe]
  /\ UNCHANGED <<natsVars, eventVars, capacity, availableTickets, capacity0, eventTime, bookings,
                 staleUpTo, ledger, lock, rateWindow, proc, orphans, limits, now,
                 zset>>

\* the clock advances by one tick
Tick ==
  /\ now < MaxTime
  /\ now' = now + 1
  /\ UNCHANGED <<natsVars, eventVars, capacity, availableTickets, capacity0, eventTime, bookings,
                 staleUpTo, ledger, lock, rateWindow, proc, orphans, limits, zset,
                 verdicts, pipe>>

\* ------------------------------------------------------------- NatsClient
\* one run of connect(), `fired` of the retry timers having run out for it:
\* when nats.connect resolves the connection is stored, the client is
\* connected and the counter reset; when it rejects, this.connection is left
\* as it was, a retry is scheduled while the counter allows it, 'error' is
\* emitted when it does not, and the error is rethrown
ConnectBody(ok, fired) ==
  /\ lastAttempt' = IF ok THEN "ok" ELSE "failed"
  /\ IF ok
     THEN /\ connection' = "open"
          /\ isConnected' = TRUE
          /\ reconnectAttempts' = 0
          /\ timers' = timers - fired
          /\ fatal' = fatal
     ELSE /\ connection' = connection
          /\ isConnected' = ConnectedAfterFailure(client, isConnected)
          /\ IF RetryAllowed(reconnectAttempts)
             THEN /\ reconnectAttempts' = reconnectAttempts + 1
                  /\ timers' = (timers - fired) + 1
                  /\ fatal' = fatal
             ELSE /\ reconnectAttempts' = reconnectAttempts
                  /\ timers' = timers - fired
                  /\ fatal' = fatal + 1

\* connect(), called by the client's user
Connect(ok) ==
  /\ connects < MaxConnectCalls
  /\ connects' = connects + 1
  /\ ConnectBody(ok, 0)
  /\ UNCHANGED <<bookingVars, eventVars, rateVars, retries, subscriptions, busSubs,
                 client, subscription, received, dispatched,
                 handled, running, sent, natsLog, rpc, busRequests, busReplies,
                 effects, outcomes>>

\* setTimeout(() => this.connect(), this.reconnectInterval) runs out
RetryFires(ok) ==
  /\ timers > 0
  /\ retries' = retries + 1
  /\ ConnectBody(ok, 1)
  /\ UNCHANGED <<bookingVars, eventVars, rateVars, connects, subscriptions, busSubs,
                 client, subscription, received, dispatched,
                 handled, running, sent, natsLog, rpc, busRequests, busReplies,
                 effects, outcomes>>

\* disconnect(), called when no request is awaited and no callback runs:
\* the subscription in the map is unsubscribed and this.connection set to
\* null; error.middleware.ts also clears the map and closes the connection
Disconnect ==
  /\ connection # "null"
  /\ rpc.state # "waiting" /\ running = 0
  /\ connection' = "null"
  /\ isConnected' = FALSE
  /\ busSubs' = AfterDisconnect(client, busSubs, subscriptions)
  /\ subscriptions' = IF ClosesConnection(client) THEN NoEntry ELSE subscriptions
  /\ subscription' = IF busSubs' = {} THEN NoSubscription ELSE subscription
  /\ UNCHANGED <<bookingVars, eventVars, rateVars, reconnectAttempts, timers, fatal,
                 connects, retries, lastAttempt, client, received, dispatched, handled,
                 running, sent, natsLog, rpc, busRequests, busReplies, effects,
                 outcomes>>

\* the call `op` ends at the guard with 'NATS connection not established'
NotEstablished(op) ==
  /\ natsLog' = Append(natsLog, [op |-> op, res |-> "not_established"])
  /\ UNCHANGED <<bookingVars, eventVars, rateVars, connVars, client, connection, subscription, received,
                 dispatched, handled, running, sent, rpc, busRequests, busReplies,
                 effects, outcomes>>

\* publish(subject, data)
Publish ==
  /\ Len(natsLog) < MaxNatsCalls
  /\ IF ~Established(connection) THEN NotEstablished("publish")
     ELSE /\ sent' = sent + 1
          /\ natsLog' = Append(natsLog, [op |-> "publish", res |-> "ok"])
          /\ UNCHANGED <<bookingVars, eventVars, rateVars, connVars, client, connection, subscription,
                         received, dispatched, handled, running, rpc, busRequests,
                         busReplies, effects, outcomes>>

\* request(subject, data, timeout), up to its await: the request is sent
Request ==
  /\ Len(natsLog) < MaxNatsCalls
  /\ rpc.state # "waiting"
  /\ IF ~Established(connection) THEN NotEstablished("request")
     ELSE LET id == Cardinality({i \in DOMAIN natsLog : natsLog[i].res = "sent"}) + 1
          IN /\ sent' = sent + 1
             /\ busRequests' = busRequests \cup {id}
             /\ rpc' = [id |-> id, state |-> "waiting"]
             /\ natsLog' = Append(natsLog, [op |-> "request", res |-> "sent"])
             /\ UNCHANGED <<bookingVars, eventVars, rateVars, connVars, client, connection, subscription,
                            received, dispatched, handled, running, busReplies,
                            effects, outcomes>>

\* the callee's handler runs on request id and its reply is sent
CalleeHandles(id) ==
  /\ id \in busRequests
  /\ busRequests' = busRequests \ {id}
  /\ effects' = effects \cup {id}
  /\ busReplies' = busReplies \cup {id}
  /\ UNCHANGED <<bookingVars, eventVars, rateVars, connVars, client, connection, subscription, received,
                 dispatched, handled, running, sent, natsLog, rpc, outcomes>>

\* the promise of the awaited request meets `outcome`: the call is resumed
\* when that settles it
Resume(outcome) ==
  LET state == Settle(rpc.state, outcome) IN
    /\ rpc' = [rpc EXCEPT !.state = state]
    /\ outcomes' = IF state # rpc.state
                   THEN [outcomes EXCEPT ![rpc.id] = Append(@, outcome)]
                   ELSE outcomes

\* the reply to request id reaches the client: the awaited request is
\* resumed with it; the reply to any other request finds nobody waiting
ReplyArrives(id) ==
  /\ id \in busReplies
  /\ busReplies' = busReplies \ {id}
  /\ IF rpc.id = id THEN Resume("reply") ELSE UNCHANGED <<rpc, outcomes>>
  /\ UNCHANGED <<bookingVars, eventVars, rateVars, connVars, client, connection, subscription, received,
                 dispatched, handled, running, sent, natsLog, busRequests, effects>>

\* the timer of the awaited request fires before its reply has arrived
RequestTimeout ==
  /\ rpc.state = "waiting"
  /\ Resume("timeout")
  /\ UNCHANGED <<bookingVars, eventVars, rateVars, connVars, client, connection, subscription, received,
                 dispatched, handled, running, sent, natsLog, busRequests,
                 busReplies, effects>>

\* const subscription = this.connection.subscribe(subject, options);
\* this.subscriptions.set(subject, subscription)
MapSet ==
  LET id == Cardinality({i \in DOMAIN natsLog :
                           natsLog[i] = [op |-> "subscribe", res |-> "ok"]}) + 1
  IN /\ busSubs' = busSubs \cup {id}
     /\ subscriptions' = id

\* subscribe(subject, callback), called once per subject: the subscription
\* is made on the connection and the delivery loop set up
Subscribe ==
  /\ Len(natsLog) < MaxNatsCalls
  /\ ~subscription.made
  /\ IF ~Established(connection) THEN NotEstablished("subscribe")
     ELSE /\ subscription' = [made |-> TRUE, loop |-> LoopStarted(client)]
          /\ MapSet
          /\ natsLog' = Append(natsLog, [op |-> "subscribe", res |-> "ok"])
          /\ UNCHANGED <<bookingVars, eventVars, rateVars, isConnected,
                         reconnectAttempts, timers, fatal, connects, retries,
                         lastAttempt, client, connection, received,
                         dispatched, handled, running, sent, rpc, busRequests,
                         busReplies, effects, outcomes>>

\* subscribe(subject, callback) or subscribeRequestReply(subject, handler)
\* on a subject the client has subscribed before: one more subscription is
\* made on the connection and takes the subject's place in the map
SubscribeAgain ==
  /\ Len(natsLog) < MaxNatsCalls
  /\ subscription.made
  /\ Established(connection)
  /\ MapSet
  /\ natsLog' = Append(natsLog, [op |-> "subscribe", res |-> "ok"])
  /\ UNCHANGED <<bookingVars, eventVars, rateVars, isConnected,
                 reconnectAttempts, timers, fatal, connects, retries,
                 lastAttempt, client, connection, subscription, received,
                 dispatched, handled, running, sent, rpc, busRequests,
                 busReplies, effects, outcomes>>

\* the bus hands the next message on the subject to the subscription
Receive ==
  /\ subscription.made
  /\ Len(received) < MaxMessages
  /\ received' = Append(received, Len(received) + 1)
  /\ UNCHANGED <<bookingVars, eventVars, rateVars, connVars, client, connection, subscription, dispatched,
                 handled, running, sent, natsLog, rpc, busRequests, busReplies,
                 effects, outcomes>>

\* for await (const message of subscription): the loop, waiting at the
\* iterator, takes the next message and calls the callback with it
Dispatch ==
  /\ subscription.loop
  /\ running = 0
  /\ Len(dispatched) < Len(received)
  /\ dispatched' = Append(dispatched, received[Len(dispatched) + 1])
  /\ running' = running + 1
  /\ UNCHANGED <<bookingVars, eventVars, rateVars, connVars, client, connection, subscription, received,
                 handled, sent, natsLog, rpc, busRequests, busReplies, effects,
                 outcomes>>

\* await callback(...) ends: it returned, or it threw and the catch inside
\* the loop logged the error; the loop goes back to the iterator
HandlerDone(threw) ==
  /\ running > 0
  /\ handled' = Append(handled, [msg |-> Last(dispatched), threw |-> threw])
  /\ running' = running - 1
  /\ UNCHANGED <<bookingVars, eventVars, rateVars, connVars, client, connection, subscription, received,
                 dispatched, sent, natsLog, rpc, busRequests, busReplies, effects,
                 outcomes>>

\* ------------------------------------------------------------ environment
\* the process running p's call dies inside withLock, before its releaseLock
Crash(p) ==
  /\ limits.crashes > 0
  /\ InCriticalSection(p) \/ proc[p].pc = "unlock"
  /\ limits' = [limits EXCEPT !.crashes = @ - 1]
  /\ Set(p, [proc[p] EXCEPT !.pc = "crashed"])
  /\ UNCHANGED <<natsVars, eventVars, rateVars, capacity, availableTickets, capacity0, eventTime,
                 bookings, staleUpTo, ledger, lock, rateWindow, orphans>>

\* The TTL of lock:{key} runs out.  Only the next command on the key can
\* tell: the step is taken when an acquireLock or the holder's releaseLock
\* on the key is about to run.
AboutToAcquire(k) ==
  \E p \in Clients :
    \/ proc[p].pc \in {"c_lock", "x_lock"} /\ InnerKey(proc[p]) = k
    \/ proc[p].pc = "s_lock" /\ BookingKey(proc[p].bid) = k

AboutToRelease(k) ==
  \E p \in Clients :
    \/ proc[p].pc = "unlock" /\ InnerKey(proc[p]) = k /\ lock[k] = Token(p, "inner")
    \/ proc[p].pc = "s_unlock" /\ BookingKey(proc[p].bid) = k
         /\ lock[k] = Token(p, "outer")

\* the entry at k belongs to a caller that died: nothing but the TTL removes it
HolderCrashed(k) ==
  \E p \in Clients : /\ proc[p].pc = "crashed"
                      /\ lock[k] \in {Token(p, "inner"), Token(p, "outer")}

\* an entry that never expires
ExpireLockNever(k) == FALSE /\ UNCHANGED vars

ExpireLock(k) ==
  /\ lock[k] # NoLock
  /\ \/ HolderCrashed(k) /\ limits' = limits
     \/ /\ ~HolderCrashed(k) /\ limits.expiries > 0
        /\ AboutToAcquire(k) \/ AboutToRelease(k)
        /\ limits' = [limits EXCEPT !.expiries = @ - 1]
  /\ lock' = [lock EXCEPT ![k] = NoLock]
  /\ UNCHANGED <<natsVars, eventVars, rateVars, capacity, availableTickets, capacity0, eventTime, bookings,
                 staleUpTo, ledger, rateWindow, proc, orphans>>

\* The event comes closer than 24 hours, then starts.  Only createBooking's
\* and cancelBooking's date checks can tell: the step is taken when one of
\* them is about to run.
TimePasses ==
  /\ eventTime # "past"
  /\ \E p \in Clients : proc[p].pc \in {"c_check", "x_load"}
  /\ eventTime' = IF eventTime = "far" THEN "near" ELSE "past"
  /\ UNCHANGED <<natsVars, eventVars, rateVars, capacity, availableTickets, capacity0, bookings, staleUpTo,
                 ledger, lock, rateWindow, proc, orphans, limits>>

\* ---------------------------------------------------------- specification
Next ==
  \/ \E p \in Procs, u \in Users, q \in Quantities : CreateBooking(p, u, q)
  \/ \E p \in Procs : AcquireInner(p)
  \/ \E p \in Procs, off \in AmountOffsets : CreateCheck(p, off)
  \/ \E p \in Procs, late \in BOOLEAN : ReserveReply(p, late)
  \/ \E p \in Procs : CreateTimeout(p)
  \/ \E p \in Procs : CreateSave(p)
  \/ \E p \in Procs : CreateDecrement(p)
  \/ \E p \in Procs : Unlock(p)
  \/ \E p \in Procs, b \in BookingIds, u \in Users : CancelBooking(p, b, u)
  \/ \E p \in Procs : CancelLoad(p)
  \/ \E p \in Procs, commits \in BOOLEAN : ReleaseReply(p, commits)
  \/ \E p \in Procs : CancelTimeout(p)
  \/ \E p \in Procs : CancelUpdate(p)
  \/ \E p \in Procs : CancelIncrement(p)
  \/ \E b \in BookingIds : ConfirmPayment(b)
  \/ \E p \in Procs, n \in 0..MaxBookings : Cleanup(p, n)
  \/ \E p \in Procs : SweepAcquire(p)
  \/ \E p \in Procs : SweepCancel(p)
  \/ \E p \in Procs : SweepUnlock(p)
  \/ \E commits \in BOOLEAN : OrphanHandler(commits)
  \/ \E k \in LockKeys : ExpireLock(k)
  \/ TimePasses

Spec == Init /\ [][Next]_vars

\* calls made one after the other, with confirmPayment arriving at any moment
NextSeq ==
  \/ \E p \in Procs, u \in Users, q \in Quantities : CreateBooking(p, u, q)
  \/ \E p \in Procs : AcquireInner(p)
  \/ \E p \in Procs, off \in AmountOffsets : CreateCheck(p, off)
  \/ \E p \in Procs, late \in BOOLEAN : ReserveReply(p, late)
  \/ \E p \in Procs : CreateSave(p)
  \/ \E p \in Procs : CreateDecrement(p)
  \/ \E p \in Procs : Unlock(p)
  \/ \E p \in Procs, b \in BookingIds, u \in Users : CancelBooking(p, b, u)
  \/ \E p \in Procs : CancelLoad(p)
  \/ \E p \in Procs, commits \in BOOLEAN : ReleaseReply(p, commits)
  \/ \E p \in Procs : CancelUpdate(p)
  \/ \E p \in Procs : CancelIncrement(p)
  \/ \E b \in BookingIds : ConfirmPayment(b)

SpecSeq == InitSeq /\ [][NextSeq]_vars

\* the locks alone: callers contend for lock:event and lock:booking
NextLock ==
  \/ \E p \in Procs, u \in Users, q \in Quantities : CreateBooking(p, u, q)
  \/ \E p \in Procs, b \in BookingIds, u \in Users : CancelBooking(p, b, u)
  \/ \E p \in Procs : AcquireInner(p)
  \/ \E p \in Procs, off \in AmountOffsets : CreateCheck(p, off)
  \/ \E p \in Procs : CancelLoad(p)
  \/ \E p \in Procs : Unlock(p)
  \/ \E k \in LockKeys : ExpireLock(k)

SpecLock == InitLock /\ [][NextLock]_vars

\* createBooking calls following one another, a timed-out request being
\* handled at any later moment
NextCreate ==
  \/ \E p \in Procs, u \in Users, q \in Quantities : CreateBooking(p, u, q)
  \/ \E p \in Procs : AcquireInner(p)
  \/ \E p \in Procs, off \in AmountOffsets : CreateCheck(p, off)
  \/ \E p \in Procs, late \in BOOLEAN : ReserveReply(p, late)
  \/ \E p \in Procs : CreateTimeout(p)
  \/ \E p \in Procs : CreateSave(p)
  \/ \E p \in Procs : CreateDecrement(p)
  \/ \E p \in Procs : Unlock(p)
  \/ \E commits \in BOOLEAN : OrphanHandler(commits)

SpecCreate == InitCreate /\ [][NextCreate]_vars

\* one caller's createBooking, cancelBooking and cleanupExpiredBookings calls
\* while the event's date approaches
NextSolo ==
  \/ \E p \in Procs, u \in Users, q \in Quantities : CreateBooking(p, u, q)
  \/ \E p \in Procs : AcquireInner(p)
  \/ \E p \in Procs, off \in AmountOffsets : CreateCheck(p, off)
  \/ \E p \in Procs, late \in BOOLEAN : ReserveReply(p, late)
  \/ \E p \in Procs : CreateTimeout(p)
  \/ \E p \in Procs : CreateSave(p)
  \/ \E p \in Procs : CreateDecrement(p)
  \/ \E p \in Procs : Unlock(p)
  \/ \E p \in Procs, b \in BookingIds, u \in Users : CancelBooking(p, b, u)
  \/ \E p \in Procs : CancelLoad(p)
  \/ \E p \in Procs, commits \in BOOLEAN : ReleaseReply(p, commits)
  \/ \E p \in Procs : CancelTimeout(p)
  \/ \E p \in Procs : CancelUpdate(p)
  \/ \E p \in Procs : CancelIncrement(p)
  \/ \E p \in Procs, n \in 0..MaxBookings : Cleanup(p, n)
  \/ \E p \in Procs : SweepAcquire(p)
  \/ \E p \in Procs : SweepCancel(p)
  \/ \E p \in Procs : SweepUnlock(p)
  \/ \E commits \in BOOLEAN : OrphanHandler(commits)
  \/ TimePasses

SpecSolo == InitSolo /\ [][NextSolo]_vars

\* overlapping createBooking calls while the event's date approaches
NextReject ==
  \/ \E p \in Procs, u \in Users, q \in Quantities : CreateBooking(p, u, q)
  \/ \E p \in Procs : AcquireInner(p)
  \/ \E p \in Procs, off \in AmountOffsets : CreateCheck(p, off)
  \/ \E p \in Procs, late \in BOOLEAN : ReserveReply(p, late)
  \/ \E p \in Procs : CreateSave(p)
  \/ \E p \in Procs : CreateDecrement(p)
  \/ \E p \in Procs : Unlock(p)
  \/ TimePasses

SpecReject == InitReject /\ [][NextReject]_vars

\* createBooking and cancelBooking calls following one another, a write to
\* the event or to the ledger failing at any of them
NextFault ==
  \/ \E p \in Procs, u \in Users, q \in Quantities : CreateBooking(p, u, q)
  \/ \E p \in Procs : AcquireInner(p)
  \/ \E p \in Procs, off \in AmountOffsets : CreateCheck(p, off)
  \/ \E p \in Procs, late \in BOOLEAN : ReserveReply(p, late)
  \/ \E p \in Procs : CreateSave(p)
  \/ \E p \in Procs : CreateDecrement(p)
  \/ \E p \in Procs, decremented \in BOOLEAN : CreateStoreFault(p, decremented)
  \/ \E p \in Procs : Unlock(p)
  \/ \E p \in Procs, b \in BookingIds, u \in Users : CancelBooking(p, b, u)
  \/ \E p \in Procs : CancelLoad(p)
  \/ \E p \in Procs, commits \in BOOLEAN : ReleaseReply(p, commits)
  \/ \E p \in Procs : CancelUpdate(p)
  \/ \E p \in Procs : CancelIncrement(p)
  \/ \E p \in Procs, incremented \in BOOLEAN : CancelStoreFault(p, incremented)

SpecFault == InitFault /\ [][NextFault]_vars

\* one client: its connection, its publish and request calls, the callee
\* and the bus
NextNats ==
  \/ \E ok \in BOOLEAN : Connect(ok)
  \/ Disconnect
  \/ Publish
  \/ Request
  \/ Subscribe
  \/ \E id \in RequestIds : CalleeHandles(id)
  \/ \E id \in RequestIds : ReplyArrives(id)
  \/ RequestTimeout

SpecNats == InitNats /\ [][NextNats]_vars

\* one client and its subscription: the bus goes on handing messages, the
\* loop, when it runs, takes the next one, and a callback ends
NextSubscribe ==
  \/ \E ok \in BOOLEAN : Connect(ok)
  \/ Subscribe
  \/ Receive
  \/ Dispatch
  \/ \E threw \in BOOLEAN : HandlerDone(threw)

SpecSubscribe ==
  /\ InitNats /\ [][NextSubscribe]_vars
  /\ WF_vars(Dispatch)
  /\ WF_vars(\E threw \in BOOLEAN : HandlerDone(threw))

\* the steps a live caller takes on its own in NextLock
LockStep(p) ==
  \/ AcquireInner(p)
  \/ \E off \in AmountOffsets : CreateCheck(p, off)
  \/ CancelLoad(p)
  \/ Unlock(p)

\* the locks with callers that die: a live caller goes on to its next step,
\* and a TTL that is running runs out
NextCrash ==
  \/ NextLock
  \/ \E p \in Procs : Crash(p)

SpecCrash ==
  /\ InitCrash /\ [][NextCrash]_vars
  /\ \A p \in Procs : WF_vars(LockStep(p))
  /\ WF_vars(\E k \in LockKeys : ExpireLock(k))

\* capacity.reserve requests of the clients, handled in any order
NextReserve ==
  \/ \E p \in Clients, q \in Quantities : RequestReserve(p, q)
  \/ \E p \in Clients : HandleReserve(p)

SpecReserve == InitCapacity /\ [][NextReserve]_vars

\* each client reserves, then releases what it reserved
NextRoundTrip ==
  \/ NextReserve
  \/ \E p \in Clients : RequestRelease(p)
  \/ \E p \in Clients, commits \in BOOLEAN : HandleRelease(p, commits)

SpecRoundTrip == InitCapacity /\ [][NextRoundTrip]_vars

\* rateLimit calls on one key while the clock runs
NextRate ==
  \/ \E p \in Procs : RateCall(p)
  \/ \E p \in Procs : PipeZRem(p)
  \/ \E p \in Procs : PipeZAdd(p)
  \/ \E p \in Procs : PipeZCard(p)
  \/ Tick

\* one caller: its calls follow one another
SpecRate == InitRate /\ [][NextRate]_vars

\* two callers: their pipelines interleave command by command
SpecRatePair == InitRatePair /\ [][NextRate]_vars

\* the next step of p's call in NextSolo: a store call returns, a lock
\* attempt is answered, a request is replied to or times out
CallStep(p) ==
  \/ AcquireInner(p)
  \/ \E off \in AmountOffsets : CreateCheck(p, off)
  \/ \E late \in BOOLEAN : ReserveReply(p, late)
  \/ CreateTimeout(p)
  \/ CreateSave(p)
  \/ CreateDecrement(p)
  \/ Unlock(p)
  \/ CancelLoad(p)
  \/ \E commits \in BOOLEAN : ReleaseReply(p, commits)
  \/ CancelTimeout(p)
  \/ CancelUpdate(p)
  \/ CancelIncrement(p)
  \/ SweepAcquire(p)
  \/ SweepCancel(p)
  \/ SweepUnlock(p)

\* one caller's calls when every store call it waits for returns
SpecTerminate ==
  /\ InitSolo /\ [][NextSolo]_vars
  /\ \A p \in Procs : WF_vars(CallStep(p))

\* runs of cleanupExpiredBookings overlapping with each other and with
\* cancelBooking calls
NextSweep ==
  \/ \E p \in Procs, n \in 0..MaxBookings : Cleanup(p, n)
  \/ \E p \in Procs : SweepAcquire(p)
  \/ \E p \in Procs : SweepCancel(p)
  \/ \E p \in Procs : SweepUnlock(p)
  \/ \E p \in Procs, b \in BookingIds, u \in Users : CancelBooking(p, b, u)
  \/ \E p \in Procs : AcquireInner(p)
  \/ \E p \in Procs : CancelLoad(p)
  \/ \E p \in Procs, commits \in BOOLEAN : ReleaseReply(p, commits)
  \/ \E p \in Procs : CancelUpdate(p)
  \/ \E p \in Procs : CancelIncrement(p)
  \/ \E p \in Procs : Unlock(p)

SpecSweep == InitSweep /\ [][NextSweep]_vars

\* the steps of updateEvent
NextUpdateEvent ==
  \/ \E p \in Procs, c \in UpdateCapacities, a \in UpdateAvailabilities : UpdateEvent(p, c, a)
  \/ \E p \in Procs : UpdateAcquire(p)
  \/ \E p \in Procs : UpdateLoad(p)
  \/ \E p \in Procs : UpdateSave(p)
  \/ \E p \in Procs : UpdateUnlock(p)

\* updateEvent calls following one another while capacity.reserve requests
\* are handled
NextUpdate ==
  \/ NextUpdateEvent
  \/ NextReserve

SpecUpdate == InitUpdate /\ [][NextUpdate]_vars

\* one updateEvent call while capacity.reserve and capacity.release requests
\* are handled
NextRace ==
  \/ NextUpdateEvent
  \/ NextRoundTrip

SpecRace == InitRace /\ [][NextRace]_vars

\* updateTicketAvailability calls of the clients, their steps in any order
NextTickets ==
  \/ \E p \in Clients, n \in Quantities : TicketsUpdate(p, n)
  \/ \E p \in Clients : TicketsLoad(p)
  \/ \E p \in Clients : TicketsSave(p)

SpecTickets == InitCapacity /\ [][NextTickets]_vars

\* one client on a bus that may be unreachable: its connect() calls and the
\* retries they schedule
NextConnect ==
  \/ \E ok \in BOOLEAN : Connect(ok)
  \/ \E ok \in BOOLEAN : RetryFires(ok)

SpecConnect == InitNats /\ [][NextConnect]_vars

\* one client that subscribes to its subject, more than once, and is
\* disconnected
NextShutdown ==
  \/ NextNats
  \/ SubscribeAgain

SpecShutdown == InitNats /\ [][NextShutdown]_vars

\* one caller with a small limit: rejected calls follow admitted ones
SpecRateSolo == InitRateSolo /\ [][NextRate]_vars

\* ------------------------------------------------------------- properties
\* C1 -- capacity bound: of the capacity.reserve requests sent against an
\* event with availableTickets = K (here K = capacity0, more clients than K),
\* handled in any order, at most K reply success, the quantities of those
\* that reply success sum to at most K, and the handling of a request that
\* replies failure leaves availableTickets unchanged.
CapacityBound ==
  /\ [](LET granted == {p \in Clients : proc[p].op = "reserve" /\ proc[p].res = "ok"}
            asBookings == [i \in 1..Len(ProcOrder) |-> [qty |-> proc[ProcOrder[i]].qty]]
        IN /\ Cardinality(granted) <= capacity0
           /\ SumQty(asBookings, {Rank(p) : p \in granted}) <= capacity0)
  /\ [][\A p \in Clients :
          (proc[p].pc = "r_wait" /\ proc'[p].res = "insufficient")
            => availableTickets' = availableTickets]_vars

\* every client has sent a request, all are handled, one at least was
\* refused and the event is sold out
CapacityBoundWitness ==
  /\ \A p \in Clients : proc[p].op = "reserve" /\ proc[p].pc = "idle"
  /\ \E p \in Clients : proc[p].res = "insufficient"
  /\ \E p \in Clients : proc[p].res = "ok"
  /\ availableTickets = 0

\* C2 -- in every reachable state 0 <= availableTickets <= capacity.
AvailableWithinCapacity ==
  /\ 0 <= availableTickets
  /\ availableTickets <= capacity

\* C3 -- Scenario A: on an event created with capacity 1, two overlapping
\* createBooking calls of different users for one ticket each, with no lock
\* expiry and no request lost, end with one call returning its booking, the
\* other failing for insufficient capacity, and availableTickets = 0.
ScenarioA ==
  ( /\ capacity0 = 1
    /\ limits.calls = MaxCalls - 2 /\ limits.expiries = MaxExpiries /\ orphans = <<>>
    /\ \A p \in Procs : /\ proc[p].pc = "idle" /\ proc[p].op = "create"
                        /\ proc[p].qty = 1
    /\ \A p, o \in Procs : p # o => proc[p].user # proc[o].user )
  => /\ \E p, o \in Procs : /\ p # o
                            /\ proc[p].res = "ok"
                            /\ proc[o].res = "insufficient"
     /\ availableTickets = 0

\* C4 -- round trip: after a capacity.reserve that replied success and a
\* capacity.release of the same quantity that replied success, with no other
\* request made, availableTickets and capacity are what they were before.
RoundTrip ==
  \A p \in Clients :
    ( /\ proc[p].op = "release" /\ proc[p].pc = "idle" /\ proc[p].res = "ok"
      /\ \A o \in Clients \ {p} : proc[o].op = "none" )
    => /\ availableTickets = capacity0
       /\ capacity = capacity0

\* C5 -- Scenario B: a successful createBooking followed by a successful
\* cancelBooking of that booking (the only two calls made, the payment never
\* confirmed) leaves availableTickets at its value before the booking and
\* the booking cancelled with paymentStatus failed.
ScenarioB ==
  ( /\ limits.calls = MaxCalls - 2 /\ orphans = <<>>
    /\ Len(bookings) = 1
    /\ \A p \in Procs : proc[p].pc = "idle"
    /\ \E p \in Procs : /\ proc[p].op = "cancel" /\ proc[p].res = "ok"
                        /\ proc[p].bid = 1 )
  => /\ availableTickets = capacity0
     /\ bookings[1].status = "cancelled"
     /\ bookings[1].pay = "failed"

\* C6 -- Scenario C: when two runs of cleanupExpiredBookings have both picked
\* up the same stale pending booking and have both ended, the booking is
\* cancelled and the ledger holds exactly one release for it.
ScenarioC ==
  \A b \in DOMAIN bookings :
    ( \A p \in Procs : /\ proc[p].op = "sweep" /\ proc[p].pc = "idle"
                       /\ proc[p].bid = b )
    => /\ bookings[b].status = "cancelled"
       /\ Cardinality({i \in DOMAIN ledger :
                         ledger[i].op = "release" /\ ledger[i].bid = b}) = 1

\* C7 -- the status of a booking only changes pending -> confirmed,
\* pending -> cancelled or confirmed -> cancelled; cancelled is final.
MonotonicStatus ==
  [][\A b \in DOMAIN bookings :
       bookings'[b].status # bookings[b].status
         => <<bookings[b].status, bookings'[b].status>> \in
              { <<"pending", "confirmed">>, <<"pending", "cancelled">>,
                <<"confirmed", "cancelled">> }]_vars

\* C8 -- no overselling: the quantities of the non-cancelled bookings of the
\* event sum to at most the capacity the event was configured with.
NoOverselling ==
  SumQty(bookings, NonCancelled(bookings)) <= capacity0

LockSafety ==
  [][\A p \in Procs :
       (proc[p].pc = "unlock" /\ proc'[p].pc # "unlock")
         => LET k == InnerKey(proc[p]) IN
              IF lock[k] = Token(p, "inner")
              THEN lock'[k] = NoLock /\ proc'[p].rel = "deleted"
              ELSE lock'[k] = lock[k] /\ proc'[p].rel = "kept"]_vars

\* A's lock expired, B acquired the key, and A's release returned false
\* with B's token still in place
LockSafetyWitness ==
  \E p, o \in Procs :
    /\ p # o
    /\ proc[p].pc = "idle" /\ proc[p].rel = "kept"
    /\ proc[o].pc \in {"c_check", "x_load", "unlock"}
    /\ InnerKey(proc[o]) = InnerKey(proc[p])
    /\ lock[InnerKey(proc[p])] = Token(o, "inner")

\* C11 -- mutual exclusion: no two callers are inside the operations wrapped
\* by withLock on the same key at the same time, however long the operations
\* run.
MutualExclusion ==
  \A p, o \in Procs :
    (p # o /\ InCriticalSection(p) /\ InCriticalSection(o))
      => InnerKey(proc[p]) # InnerKey(proc[o])

\* C12 -- withLock releases on every exit path: a caller outside its withLock
\* holds no entry with its token; the wrapped operation, returning or
\* throwing, is followed by the release, and the outcome is handed on by the
\* step that releases, unchanged.
ReleaseOnEveryExit ==
  /\ [](\A p \in Procs :
          proc[p].pc \in {"idle", "c_lock", "x_lock", "s_lock", "s_cancel", "s_unlock"}
            => \A k \in LockKeys : lock[k] # Token(p, "inner"))
  /\ [][\A p \in Procs :
          /\ (InCriticalSection(p) /\ proc'[p].pc # proc[p].pc)
               => proc'[p].pc = "unlock" \/ proc'[p].pc \in {"c_wait", "c_save", "c_dec",
                                                            "x_wait", "x_update", "x_inc"}
          /\ (proc[p].pc = "unlock" /\ proc'[p].pc # "unlock")
               => /\ lock'[InnerKey(proc[p])] # Token(p, "inner")
                  /\ proc'[p].res = proc[p].res]_vars

\* a booking was returned and a later call threw, both with the lock deleted
ReleaseOnEveryExitWitness ==
  \E p \in Procs :
    /\ proc[p].pc = "idle" /\ proc[p].rel = "deleted"
    /\ proc[p].res \in {"insufficient", "not_found", "already_cancelled", "duplicate"}
    /\ lock[InnerKey(proc[p])] = NoLock
    /\ Len(bookings) >= 1

\* C13 -- an acquireLock attempt on a key held by another owner changes
\* neither the entry nor any document; after MaxRetries attempts the call
\* ends with the lock-acquisition error without having entered the wrapped
\* operation, and before that it only counts the attempt.
LockFailureSurfaced ==
  [][\A p \in Procs :
       ( /\ proc[p].pc \in {"c_lock", "x_lock"}
         /\ proc'[p] # proc[p]
         /\ lock[InnerKey(proc[p])] # NoLock )
       => /\ lock' = lock
          /\ UNCHANGED <<capacity, availableTickets, bookings, ledger>>
          /\ IF proc[p].tries + 1 < MaxRetries
             THEN proc'[p] = [proc[p] EXCEPT !.tries = @ + 1]
             ELSE /\ proc'[p].pc \in {"idle", "s_unlock"}
                  /\ proc'[p].res = "lock_failed"]_vars

\* a call has ended with the lock-acquisition error while the other caller
\* still holds the key
LockFailureSurfacedWitness ==
  \E p, o \in Procs :
    /\ p # o
    /\ proc[p].pc = "idle" /\ proc[p].res = "lock_failed"
    /\ InCriticalSection(o)
    /\ InnerKey(proc[o]) = InnerKey(proc[p])
    /\ lock[InnerKey(proc[p])] = Token(o, "inner")

\* C14 -- rate limiter boundary: on a fresh key with the limit of five, the
\* first five calls made within one window each return true, a sixth call in
\* that window returns false, and a call made a full window after the call
\* before it returns true.
RateBoundary ==
  /\ \A i \in DOMAIN verdicts :
       (i <= BookMaxRequests /\ verdicts[i].at - verdicts[1].at < WindowTicks)
         => verdicts[i].ok
  /\ ( /\ Len(verdicts) > BookMaxRequests
       /\ verdicts[BookMaxRequests + 1].at - verdicts[1].at < WindowTicks )
     => ~verdicts[BookMaxRequests + 1].ok
  /\ \A i \in DOMAIN verdicts :
       (i > 1 /\ verdicts[i].at - verdicts[i - 1].at >= WindowTicks)
         => verdicts[i].ok

\* five calls returned true, the sixth false in the same window, and the
\* seventh, a window later, true
RateBoundaryWitness ==
  /\ Len(verdicts) > BookMaxRequests + 1
  /\ \A i \in 1..BookMaxRequests : verdicts[i].ok
  /\ verdicts[BookMaxRequests + 1].at - verdicts[1].at < WindowTicks
  /\ ~verdicts[BookMaxRequests + 1].ok
  /\ verdicts[BookMaxRequests + 2].at - verdicts[BookMaxRequests + 1].at >= WindowTicks
  /\ verdicts[BookMaxRequests + 2].ok

\* C15 -- in any window of length windowMs, at most maxRequests of the calls
\* whose timestamp falls in the window return true.
RateBound ==
  \A i \in DOMAIN verdicts :
    Cardinality({j \in DOMAIN verdicts :
                   /\ verdicts[j].ok
                   /\ verdicts[j].at > verdicts[i].at - WindowTicks
                   /\ verdicts[j].at <= verdicts[i].at}) <= limits.maxRequests

\* C16 -- lock liveness: an entry lock:{key}, whether its holder releases it
\* or dies holding it, does not stay forever; and an acquire attempt made
\* once the entry is gone succeeds.
LockLiveness ==
  /\ \A p \in Procs :
       (\E k \in LockKeys : lock[k] = Token(p, "inner"))
         ~> (\A k \in LockKeys : lock[k] # Token(p, "inner"))
  /\ [][\A p \in Procs :
          ( /\ proc[p].pc \in {"c_lock", "x_lock"} /\ proc'[p] # proc[p]
            /\ lock[InnerKey(proc[p])] = NoLock )
          => lock'[InnerKey(proc[p])] = Token(p, "inner")]_vars

\* a caller died holding the key and the other caller holds it now
LockLivenessWitness ==
  \E p, o \in Procs :
    /\ p # o /\ proc[p].pc = "crashed"
    /\ InCriticalSection(o) /\ InnerKey(proc[o]) = InnerKey(proc[p])
    /\ lock[InnerKey(proc[p])] = Token(o, "inner")

\* C17 -- expiry sweep liveness, on a finished run: when a run of
\* cleanupExpiredBookings has picked up a stale pending booking and ended,
\* the event being more than 24 hours away, no lock having expired and no
\* other caller having called, the booking is cancelled (unless its payment
\* was confirmed) and the ledger holds a release for it.
SweepCancelsStale ==
  \A p \in Procs, b \in DOMAIN bookings :
    ( /\ proc[p].op = "sweep" /\ proc[p].pc = "idle" /\ proc[p].bid = b
      /\ \A o \in Procs \ {p} : proc[o].op = "none"
      /\ eventTime = "far" /\ limits.expiries = MaxExpiries
      /\ bookings[b].status # "confirmed" )
    => /\ bookings[b].status = "cancelled"
       /\ \E i \in DOMAIN ledger : ledger[i].op = "release" /\ ledger[i].bid = b

\* C18 -- capacity is released at most once per booking: the ledger holds
\* at most one release entry for each booking.
ReleaseAtMostOnce ==
  \A b \in DOMAIN bookings :
    Cardinality({i \in DOMAIN ledger :
                   ledger[i].op = "release" /\ ledger[i].bid = b}) <= 1

\* C19 -- the ledger is append-only and holds one entry per successful
\* reserve / release request: a release entry is written only by a call
\* whose capacity.release request replied success, and a createBooking
\* whose capacity.reserve request replied success does not leave its
\* critical section without having written its reserve entry.
LedgerMatchesReplies ==
  [][/\ Len(ledger') >= Len(ledger)
     /\ SubSeq(ledger', 1, Len(ledger)) = ledger
     /\ \A p \in Procs :
          /\ (proc[p].pc = "x_inc" /\ Len(ledger') > Len(ledger))
               => proc[p].capacityResponse = "success"
          /\ ( /\ proc[p].pc \in {"c_save", "c_dec"}
               /\ proc[p].capacityResponse = "success"
               /\ proc'[p].pc = "unlock" )
             => ledger' = Append(ledger, [op |-> "reserve", qty |-> proc[p].qty,
                                          bid |-> proc[p].bid])]_vars

RefundWhenPaid ==
  [][\A p \in Procs :
       ( /\ proc[p].pc = "x_update" /\ proc'[p].pc = "x_inc"
         /\ bookings[proc[p].bid].pay = "paid" )
       => bookings'[proc[p].bid].pay = "refunded"]_vars

\* C27 -- acquireLock makes at most MaxRetries set-if-absent attempts on
\* lock:{key}: an attempt on an absent key sets it to the caller's value and
\* the call returns true; an attempt on a present key changes nothing, and
\* the call goes on to its next attempt or, after the last one, returns
\* false.
AcquireAttempts ==
  /\ [](\A p \in Procs :
          proc[p].pc \in {"c_lock", "x_lock"} => proc[p].tries < MaxRetries)
  /\ [][\A p \in Procs :
          (proc[p].pc \in {"c_lock", "x_lock"} /\ proc'[p] # proc[p])
          => LET k == InnerKey(proc[p]) IN
               IF lock[k] = NoLock
               THEN /\ lock' = [lock EXCEPT ![k] = Token(p, "inner")]
                    /\ proc'[p].pc \in {"c_check", "x_load"}
               ELSE /\ lock' = lock
                    /\ IF proc[p].tries + 1 = MaxRetries
                       THEN proc'[p].pc = "idle" /\ proc'[p].res = "lock_failed"
                       ELSE /\ proc'[p].pc = proc[p].pc
                            /\ proc'[p].tries = proc[p].tries + 1]_vars

\* a caller has failed all but its last attempt on a key the other caller
\* set at its first attempt and still holds
AcquireAttemptsWitness ==
  \E p, o \in Procs :
    /\ p # o
    /\ proc[p].pc \in {"c_lock", "x_lock"} /\ proc[p].tries = MaxRetries - 1
    /\ InCriticalSection(o) /\ InnerKey(proc[o]) = InnerKey(proc[p])
    /\ lock[InnerKey(proc[p])] = Token(o, "inner")

\* C22 -- best-effort release: when cancelBooking's capacity.release request
\* replies failure, throws or times out, the call still goes on: it updates
\* the booking to cancelled and returns it.
BestEffortRelease ==
  [][\A p \in Procs :
       /\ ( /\ proc[p].pc = "x_wait"
            /\ proc'[p].capacityResponse \in {"failure", "timeout"} )
          => proc'[p].pc = "x_update"
       /\ ( /\ proc[p].capacityResponse \in {"failure", "timeout"}
            /\ proc[p].op = "cancel" /\ proc'[p] # proc[p] )
          => /\ proc[p].pc = "x_update"
                  => /\ proc'[p].pc = "x_inc"
                     /\ bookings'[proc[p].bid].status = "cancelled"
             /\ proc[p].pc = "x_inc"
                  => proc'[p].pc = "unlock" /\ proc'[p].res = "ok"
             /\ proc[p].pc = "unlock"
                  => proc'[p].pc = "idle" /\ proc'[p].res = "ok"]_vars

\* a cancelBooking whose release request timed out is about to return the
\* cancelled booking
BestEffortReleaseWitness ==
  \E p \in Procs :
    /\ proc[p].pc = "unlock" /\ proc[p].op = "cancel" /\ proc[p].res = "ok"
    /\ proc[p].capacityResponse = "timeout"
    /\ bookings[proc[p].bid].status = "cancelled"

\* C26 -- the lock is not reentrant: the cancelBooking that the expiry sweep
\* calls inside its own withLock(booking:{id}) never acquires the key while
\* the sweep holds it; it fails with the lock-acquisition error without
\* running its operation, and the sweep's withLock then releases its lock.
NotReentrant ==
  /\ [](\A p \in Procs :
          proc[p].outer
            => /\ proc[p].pc \in {"s_cancel", "x_lock", "s_unlock"}
               /\ lock[BookingKey(proc[p].bid)] = Token(p, "outer"))
  /\ [][\A p \in Procs :
          /\ (proc[p].outer /\ proc[p].pc = "x_lock" /\ proc'[p] # proc[p])
               => /\ lock' = lock
                  /\ UNCHANGED <<bookings, ledger, availableTickets, capacity>>
                  /\ IF proc[p].tries + 1 = MaxRetries
                     THEN proc'[p].pc = "s_unlock" /\ proc'[p].res = "lock_failed"
                     ELSE /\ proc'[p].pc = "x_lock"
                          /\ proc'[p].tries = proc[p].tries + 1
          /\ (proc[p].pc = "s_unlock" /\ proc'[p] # proc[p])
               => /\ lock'[BookingKey(proc[p].bid)] = NoLock
                  /\ proc'[p].rel = "deleted"]_vars

\* a sweep has ended: its cancelBooking failed on the lock, the booking is
\* still pending and the sweep's own lock is released
NotReentrantWitness ==
  \E p \in Procs :
    /\ proc[p].op = "sweep" /\ proc[p].pc = "idle"
    /\ proc[p].bid \in DOMAIN bookings
    /\ bookings[proc[p].bid].status = "pending"
    /\ proc[p].rel = "deleted"
    /\ lock[BookingKey(proc[p].bid)] = NoLock

\* C30 -- a cancelBooking whose booking does not exist, belongs to another
\* user or is already cancelled, or whose event starts in less than 24
\* hours, fails with the matching error: it sends no capacity.release
\* request and changes neither the booking, nor availableTickets, nor the
\* ledger.
CancelRejected ==
  [][\A p \in Procs :
       /\ ( /\ proc[p].pc = "x_load" /\ proc'[p] # proc[p]
            /\ \/ proc[p].bid > Len(bookings)
               \/ bookings[proc[p].bid].user # proc[p].user
               \/ bookings[proc[p].bid].status = "cancelled"
               \/ eventTime # "far" )
          => /\ proc'[p].pc = "unlock"
             /\ proc'[p].res \in {"not_found", "unauthorized", "already_cancelled",
                                  "too_late"}
             /\ proc'[p].res = "not_found" <=> proc[p].bid > Len(bookings)
             /\ UNCHANGED <<bookings, availableTickets, capacity, ledger, orphans>>
       /\ ( /\ proc[p].pc = "unlock" /\ proc'[p] # proc[p]
            /\ proc[p].res \in {"not_found", "unauthorized", "already_cancelled",
                                "too_late"} )
          => /\ proc'[p].pc = "idle" /\ proc'[p].res = proc[p].res
             /\ UNCHANGED <<bookings, availableTickets, capacity, ledger, orphans>>]_vars

\* a cancelBooking made less than 24 hours before the event is failing, its
\* booking still pending and the ledger as createBooking left it
CancelRejectedWitness ==
  \E p \in Procs :
    /\ proc[p].op = "cancel" /\ proc[p].pc = "unlock" /\ proc[p].res = "too_late"
    /\ proc[p].bid \in DOMAIN bookings
    /\ bookings[proc[p].bid].user = proc[p].user
    /\ bookings[proc[p].bid].status = "pending"
    /\ ledger # <<>> /\ ledger[Len(ledger)].op = "reserve"

AllOrNothing ==
  /\ [](\A p \in Procs :
          ( /\ proc[p].pc = "idle" /\ proc[p].op = "create"
            /\ proc[p].res \notin {"ok", "none"} )
          => proc[p].bid \notin DOMAIN bookings)
  /\ [][\A p \in Procs :
          /\ ( /\ proc[p].op = "cancel" /\ proc'[p] # proc[p]
               /\ proc[p].pc \in {"x_lock", "x_load", "x_wait", "x_inc", "unlock"} )
             => bookings' = bookings
          /\ (proc[p].pc = "x_inc" /\ proc'[p] # proc[p])
               => proc'[p].res = "ok"]_vars

\* C23 -- publish, request and subscribe on a client without a connection
\* (never connected, connect failed, or disconnected) end at once with the
\* error 'connection not established': nothing is put on the bus, no
\* subscription is made and no request is left waiting.
NotEstablishedFails ==
  [][(Len(natsLog') > Len(natsLog) /\ connection = "null")
       => /\ Last(natsLog').res = "not_established"
          /\ UNCHANGED <<sent, busRequests, busReplies, subscription, rpc,
                         connection>>]_vars

\* after a publish that was sent and a disconnect, a request and a subscribe
\* have failed, and the bus has carried the one message
NotEstablishedFailsWitness ==
  /\ Len(natsLog) = 3
  /\ natsLog[1] = [op |-> "publish", res |-> "ok"]
  /\ {natsLog[2].op, natsLog[3].op} = {"request", "subscribe"}
  /\ natsLog[2].res = "not_established" /\ natsLog[3].res = "not_established"
  /\ connection = "null" /\ sent = 1 /\ ~subscription.made

\* C24 -- each request call is resumed exactly once, with the reply or with
\* the timeout error: a request that timed out stays timed out when its
\* reply arrives later, although the callee's handler has run.
RequestOneOutcome ==
  /\ [](\A id \in RequestIds :
          /\ Len(outcomes[id]) <= 1
          /\ id < rpc.id => Len(outcomes[id]) = 1
          /\ id = rpc.id
               => /\ rpc.state = "waiting" <=> outcomes[id] = <<>>
                  /\ rpc.state = "reply" <=> outcomes[id] = <<"reply">>
                  /\ rpc.state = "timeout" <=> outcomes[id] = <<"timeout">>)
  /\ [][(rpc.state = "timeout" /\ rpc'.id = rpc.id)
          => rpc' = rpc /\ outcomes' = outcomes]_vars

\* a request timed out, the callee handled it all the same, and its reply
\* arrived and was dropped
RequestOneOutcomeWitness ==
  /\ rpc.state = "timeout"
  /\ rpc.id \in effects
  /\ rpc.id \notin busReplies
  /\ outcomes[rpc.id] = <<"timeout">>

\* C25 -- every message received by a subscription is passed to the
\* callback, in receipt order and one at a time (the next one only when the
\* invocation before it has ended), and is passed even when an earlier
\* invocation threw.
SubscribeDelivery ==
  /\ [](/\ running <= 1
        /\ Len(dispatched) <= Len(received)
        /\ dispatched = SubSeq(received, 1, Len(dispatched)))
  /\ [][Len(dispatched') > Len(dispatched)
          => Len(handled) = Len(dispatched)]_vars
  /\ \A i \in 1..MaxMessages : (Len(received) >= i) ~> (Len(handled) >= i)

\* C36 -- capacity conservation: whenever no booking operation is in flight,
\* capacity - availableTickets equals the sum of ticketQuantity over the
\* event's pending and confirmed bookings (so a successful createBooking of
\* quantity q has lowered availableTickets by exactly q).
CapacityConservation ==
  (\A p \in Clients : proc[p].pc = "idle")
    => capacity - availableTickets = SumQty(bookings, NonCancelled(bookings))

\* the calls up to call i whose timestamp lies in the window that ends at
\* call i, rejected calls included
CallsInWindow(i) ==
  {j \in 1..i : verdicts[j].at > verdicts[i].at - WindowTicks}

\* C37 -- a rateLimit call that returns false has still recorded its
\* timestamp: a call of one caller returns true exactly when the calls made
\* in its window, rejected ones included, are at most maxRequests; so once
\* every window holds more than maxRequests calls, no call after the first
\* maxRequests is admitted.
RejectedCallsCount ==
  /\ \A i \in DOMAIN verdicts :
       verdicts[i].ok <=> Cardinality(CallsInWindow(i)) <= limits.maxRequests
  /\ \A i \in DOMAIN verdicts :
       (\A k \in 1..i : k > limits.maxRequests
                          => Cardinality(CallsInWindow(k)) > limits.maxRequests)
         => \A k \in 1..i : k > limits.maxRequests => ~verdicts[k].ok

\* a call is refused although fewer than maxRequests admitted calls are
\* left in its window: the refused calls before it keep it out
RejectedCallsCountWitness ==
  \E i \in DOMAIN verdicts :
    /\ ~verdicts[i].ok
    /\ \E j \in CallsInWindow(i) : j < i /\ ~verdicts[j].ok
    /\ Cardinality({j \in CallsInWindow(i) : verdicts[j].ok}) < limits.maxRequests

\* C31 -- a failure while handling one stale booking is contained in the
\* run of cleanupExpiredBookings: a booking only leaves the run's list by
\* being attempted (the sweep's withLock on it starts), the run ends only
\* when the list is empty, and it ends without an error.
SweepContained ==
  [][\A p \in Procs :
       (proc[p].op = "sweep" /\ proc[p].pc # "idle" /\ proc'[p] # proc[p])
         => /\ proc'[p].op = "sweep"
            /\ proc'[p].pc = "idle"
                 => (proc[p].todo = {} /\ proc'[p].res = "ok")
            /\ proc'[p].pc # "idle"
                 => \/ proc'[p].todo = proc[p].todo
                    \/ /\ proc'[p].todo = proc[p].todo \ {proc'[p].bid}
                       /\ proc'[p].bid \in proc[p].todo
                       /\ proc'[p].pc = "s_lock"]_vars

\* a run that found both stale bookings has ended without an error after
\* failing on each of them: booking 2 was the last it attempted, and both
\* are still pending
SweepContainedWitness ==
  \E p \in Procs :
    /\ proc[p].op = "sweep" /\ proc[p].pc = "idle" /\ proc[p].res = "ok"
    /\ proc[p].bid = 2
    /\ bookings[1].status = "pending" /\ bookings[2].status = "pending"

\* C33 -- termination: when every store call it waits for returns, a call
\* of createBooking, cancelBooking or cleanupExpiredBookings that has started
\* ends (returns or throws): lock acquisition gives up after maxRetries
\* attempts, a request is replied to or times out, and the nested
\* cancelBooking of the sweep fails at the lock its caller holds instead of
\* waiting for it.
CallsTerminate ==
  \A p \in Procs : (proc[p].pc # "idle") ~> (proc[p].pc = "idle")

\* a run of the sweep has ended after its nested cancelBooking gave up on
\* the lock the run itself held, and a createBooking after a timed-out request
CallsTerminateWitness ==
  \E p \in Procs :
    /\ proc[p].op = "sweep" /\ proc[p].pc = "idle" /\ proc[p].bid # NoBooking
    /\ bookings[proc[p].bid].status = "pending"
    /\ limits.calls = 0

\* C32 -- updateEvent never lowers capacity below the tickets sold: a
\* request whose capacity is below capacity - availableTickets is rejected
\* with the event unchanged, and an accepted update that changes capacity
\* leaves capacity - availableTickets as it was before the update, with
\* 0 <= availableTickets <= capacity.
UpdateKeepsSold ==
  [][\A p \in Procs :
       /\ ( /\ eventCall[p].pc = "u_load" /\ eventCall'[p].pc # "u_load"
            /\ eventCall[p].capacity # Undefined
            /\ eventCall[p].capacity < capacity - availableTickets )
          => /\ eventCall'[p].pc = "u_unlock" /\ eventCall'[p].res # "ok"
             /\ capacity' = capacity /\ availableTickets' = availableTickets
       /\ ( /\ eventCall[p].pc = "u_save" /\ eventCall'[p].pc = "u_unlock"
            /\ capacity' # capacity )
          => /\ capacity' - availableTickets' = capacity - availableTickets
             /\ 0 <= availableTickets' /\ availableTickets' <= capacity']_vars

\* C38 -- an updateEvent that changes capacity (and sets nothing else of the
\* counters), interleaved with capacity.reserve and capacity.release
\* requests on the event, does not lose them: when all have completed,
\* capacity - availableTickets is the tickets sold before (none, on the new
\* event) plus the reserved minus the released quantities.
UpdateKeepsReservation ==
  LET reservers == {p \in Clients : \/ proc[p].op = "reserve" /\ proc[p].res = "ok"
                                    \/ proc[p].op = "release"}
      releasers == {p \in Clients : proc[p].op = "release" /\ proc[p].res = "ok"}
  IN ( /\ \A p \in Clients : proc[p].pc = "idle" /\ eventCall[p].pc = "idle"
       /\ \E p \in Procs : /\ eventCall[p].op = "update" /\ eventCall[p].res = "ok"
                           /\ eventCall[p].capacity # Undefined
                           /\ eventCall[p].availableTickets = Undefined
                           /\ eventCall[p].mem.capacity # eventCall[p].doc.capacity )
     => capacity - availableTickets = SumQty(proc, reservers) - SumQty(proc, releasers)

\* C39 -- of the concurrent updateTicketAvailability(eventId, n) calls on an
\* event with availableTickets = K (K = capacity0 on the new event), the n of
\* the calls that succeed sum to at most K, and once all have completed
\* availableTickets is K minus that sum.
TicketsBound ==
  LET succeeded == {p \in Clients : /\ eventCall[p].op = "tickets"
                                    /\ eventCall[p].pc = "idle"
                                    /\ eventCall[p].res = "ok"}
  IN /\ SumTickets(eventCall, succeeded) <= capacity0
     /\ (\A p \in Clients : eventCall[p].pc = "idle")
          => availableTickets = capacity0 - SumTickets(eventCall, succeeded)

ShutdownClean ==
  /\ [][(connection # "null" /\ connection' = "null")
          => /\ busSubs' = {}
             /\ ~(isConnected' /\ connection' # "null")]_vars
  /\ [][( /\ Len(natsLog') > Len(natsLog) /\ connection = "null"
          /\ Last(natsLog').op \in {"publish", "request"} )
          => Last(natsLog').res = "not_established" /\ sent' = sent]_vars

=============================================================================
